---- MODULE Spec2Model ----
(***************************************************************************)
(* Gap maintenance engine of cumulus-gap-detection: the interval store     *)
(* (gaps per collection), collection registration, and the gapUpdate       *)
(* lambda that applies ingest batches (update_gaps) and deletion batches    *)
(* (add_gaps) under a per-collection advisory lock.                         *)
(*                                                                         *)
(* Time is counted in ticks; TicksPerSec ticks make one second, so that    *)
(* sub-second timestamps and the rounding of granule ends are visible.      *)
(* A range is a pair <<lo, hi>> standing for tsrange(lo, hi) = [lo, hi).   *)
(* A gap row is its (start_ts, end_ts) pair; the generated gap_id is not   *)
(* modelled, and an inserted row equal to a kept row is rejected by the    *)
(* exclusion constraint like any other overlap.                            *)
(***************************************************************************)
EXTENDS Integers, Sequences, FiniteSets, TLC

\* ---------------------------------------------------------------- bounds
\* Resolution of the clock: ticks per second.
TicksPerSec == 2
\* Granule timestamps are drawn from 0..MaxT (ticks).
MaxT == 4
\* Longest batch of the ingest-only specification.
MaxBatch == 2
\* Granules of the collection of a backfill, at most.
MaxGranules == 2
\* Producers of a backfill, at most (max_producers, 8 in the code).
MaxProducers == 2
\* Granules on a catalog page (page_size, 2000 in the code).
page_size == 1
\* Messages in a full batch of send_message_batch (10 in the code).
BatchFull == 2

\* ------------------------------------------------------------ time, ranges
Ticks == 0..(MaxT + 2 * TicksPerSec)

\* date_trunc('second', t)
date_trunc(t) == t - (t % TicksPerSec)

\* date_trunc('second', end_ts) + interval '1 second'
RoundEnd(t) == date_trunc(t) + TicksPerSec

\* tsrange(lo, hi) raises "range lower bound must be less than or equal to
\* range upper bound" when lo > hi.
tsrangeOK(lo, hi) == lo <= hi

isempty(r) == r[1] = r[2]

\* Variant of &&: only when r2 starts strictly inside r1.
Overlaps_StartInside(r1, r2) ==
    ~isempty(r1) /\ ~isempty(r2) /\ r1[1] < r2[1] /\ r2[1] < r1[2]

\* r1 && r2 (an empty range overlaps nothing)
Overlaps(r1, r2) == ~isempty(r1) /\ ~isempty(r2) /\ r1[1] < r2[2] /\ r2[1] < r1[2]

\* r1 -|- r2 (an empty range is adjacent to nothing)
Adjacent(r1, r2) == ~isempty(r1) /\ ~isempty(r2) /\ (r1[2] = r2[1] \/ r2[2] = r1[1])

Min(a, b) == IF a <= b THEN a ELSE b
Max(a, b) == IF a >= b THEN a ELSE b

\* Variant of range_agg: ranges that touch are not merged.
RECURSIVE range_agg_OverlapOnly(_)
range_agg_OverlapOnly(S) ==
    LET N == {r \in S : ~isempty(r)}
        P == {p \in N \X N : p[1] # p[2] /\ Overlaps(p[1], p[2])}
    IN  IF P = {} THEN N
        ELSE LET p == CHOOSE q \in P : TRUE
                 m == <<Min(p[1][1], p[2][1]), Max(p[1][2], p[2][2])>>
             IN  range_agg_OverlapOnly((N \ {p[1], p[2]}) \cup {m})

\* range_agg(S): the normalised multirange of the ranges of S, as the set of
\* its ranges (unnest). Empty ranges vanish; ranges that overlap or touch
\* are merged until none do.
RECURSIVE range_agg(_)
range_agg(S) ==
    LET N == {r \in S : ~isempty(r)}
        P == {p \in N \X N : p[1] # p[2] /\ (Overlaps(p[1], p[2]) \/ Adjacent(p[1], p[2]))}
    IN  IF P = {} THEN N
        ELSE LET p == CHOOSE q \in P : TRUE
                 m == <<Min(p[1][1], p[2][1]), Max(p[1][2], p[2][2])>>
             IN  range_agg((N \ {p[1], p[2]}) \cup {m})

\* multirange(g) - M, unnested: what is left of range g once every range
\* of the normalised multirange M is cut out of it.
RECURSIVE range_minus(_, _)
range_minus(g, M) ==
    IF isempty(g) THEN {}
    ELSE LET H == {m \in M : Overlaps(g, m)}
         IN  IF H = {} THEN {g}
             ELSE LET m == CHOOSE x \in H : TRUE
                      left == IF g[1] < m[1] THEN {<<g[1], m[1]>>} ELSE {}
                      right == IF m[2] < g[2] THEN {<<m[2], g[2]>>} ELSE {}
                  IN  UNION {range_minus(p, M \ {m}) : p \in left \cup right}


\* ------------------------------------------------------------ collections
\* Collections the catalog (CMR) knows, and one it has no match for.
Collections == {"A", "B"}
Unknown == "U"
CollectionIds == Collections \cup {Unknown}

\* get_cmr_time: (BeginningDateTime, EndingDateTime) of a collection's
\* temporal extent in the catalog.
get_cmr_time(c) == IF c = "A" THEN <<0, MaxT>> ELSE <<TicksPerSec, MaxT>>

\* SQS queues that feed the lambda; DELETION_QUEUE_ARN names the second.
INGEST_QUEUE_ARN == "ingest-queue"
DELETION_QUEUE_ARN == "deletion-queue"
QueueArns == {INGEST_QUEUE_ARN, DELETION_QUEUE_ARN}

Workers == {"w1", "w2"}

\* The values of hashtext, the key space of the advisory locks: 32 bits in
\* PostgreSQL, three values here.
LockKeys == {"k1", "k2", "k3"}

NoWorker == "none"
NoCollection == "none"

\* ------------------------------------------------------------------ state
VARIABLES
    collections,  \* collections table: registered id -> <<extent_start, extent_end>>
    gaps,         \* committed rows of gaps, per collection: set of <<start_ts, end_ts>>
    advisory,     \* advisory lock table: key -> holding worker, or NoWorker
    pc,           \* per worker: position in lambda_handler
    event,        \* per worker: the SQS event being handled (sequence of records)
    delete,       \* per worker: the handler's delete flag
    queue,        \* per worker: collection groups still to process, in dict order
    cur,          \* per worker: collection of the open transaction
    pending,      \* per worker: uncommitted gaps rows of the open transaction
    failures,     \* per worker: the handler's failures list (message ids)
    outcome,      \* per worker: what became of each group of the event
    warned,       \* per worker: collections for which the overlap warning was logged
    hist,         \* per collection: last committed batch (and, for a deletion
                  \* batch, the rows before it)
    covered,      \* per collection: ticks covered by granules ingested since
                  \* registration, while no deletion batch was committed
    cfg,          \* the registration handler (gapConfig): its position and locals
    backfilled,   \* per collection: how the last backfill asked for it ended
    rd,           \* the reader (list_gaps): the collection and rows of its last read
    cancelled,    \* per worker: its last invocation was cancelled while it
                  \* held an advisory lock
    hashOf,       \* hashtext on the collection ids in use: id -> lock key
                  \* (fixed; which ids share a key depends on the ids)
    orch,         \* backfill (process_collection): its position, n_producers,
                  \* n_consumers, queue_size and the sentinels it has put
    producers,    \* per producer task (fetch_cmr_range): position and locals
    consumers,    \* per consumer task (send_to_sqs): position, batch, the
                  \* sentinels it got and its send_message_batch calls
    result_queue  \* the asyncio.Queue shared by the tasks, oldest item first

\* The variables of the backfill.
msvars == <<orch, producers, consumers, result_queue>>

VARIABLES
    reg,          \* per registrar (a gapConfig instance inside init_collection):
                  \* position, collection, partitions created in its open
                  \* transaction, and how init_collection ended
    pg_class,     \* committed partitions: set of <<parent table, collection id>>
    ddl,          \* ACCESS EXCLUSIVE locks on the partitioned tables gaps and
                  \* reasons: table -> holding registrar, or NoWorker
    policy        \* per SNS subscription: the record.collectionId list of its
                  \* filter policy, as a set

\* The variables of concurrent registration.
regvars == <<reg, pg_class, ddl>>

VARIABLES
    reasons,      \* committed rows of reasons, per collection: set of
                  \* <<start_ts, end_ts, reason>>
    gap_reason,   \* the reason column of gaps as knownGap writes it, per
                  \* collection: set of <<start_ts, end_ts, reason>> for the
                  \* rows whose reason is not NULL
    kg            \* the last response of the knownGap handler

\* The variables of the reason annotations.
rsnvars == <<reasons, gap_reason, kg>>

VARIABLES
    sp,           \* split_date_ranges: its arguments and what it returned
    ci,           \* a collection id: the short name and version it is built
                  \* from, the id, and what parse_collection_id returned
    dbc           \* one use of get_db_connection: where the generator is,
                  \* the connections, and what the caller has seen

\* The variables of the functions checked on their own.
fnvars == <<sp, ci, dbc>>

\* hashtext(collection_id): the advisory lock key of a collection. A hash
\* of the id, so two ids may have the same key.
hashtext(c) == hashOf[c]

\* What never changes in a run.
fixed == <<hashOf>>

\* The variables of the gapUpdate workers.
updvars == <<advisory, pc, event, delete, queue, cur, pending, failures,
             outcome, warned, hist, covered, cancelled>>

\* The variables of the registration handler.
cfgvars == <<cfg, backfilled, policy>>

\* The variables of the reader.
rdvars == <<rd>>

\* The variables gapUpdate never touches, and likewise for the registration
\* handler, the reader, the backfill and concurrent registration.
outer == <<cfgvars, rdvars, cancelled, fixed, msvars, regvars, rsnvars, fnvars>>
notConfig == <<updvars, rdvars, fixed, msvars, regvars, rsnvars, fnvars>>
notReader == <<collections, gaps, updvars, cfgvars, fixed, msvars, regvars,
               rsnvars, fnvars>>
notStream == <<collections, gaps, updvars, cfgvars, rdvars, fixed, regvars,
               rsnvars, fnvars>>
notRegister == <<updvars, cfgvars, rdvars, fixed, msvars, rsnvars, fnvars>>
notReasons == <<collections, gaps, updvars, cfgvars, rdvars, fixed, msvars,
                regvars, fnvars>>

notFn == <<collections, gaps, updvars, cfgvars, rdvars, fixed, msvars,
           regvars, rsnvars>>

vars == <<collections, gaps, advisory, pc, event, delete, queue, cur, pending,
          failures, outcome, warned, hist, covered, outer>>

Registered == DOMAIN collections

NoTxn == [active |-> FALSE, rows |-> {}]
NoHist == [kind |-> "none", recs |-> <<>>, pre |-> {}]

\* SQL NULL in a reason column.
NULL == "NULL"

\* The reader before its first read.
NoRead == [collection |-> NoCollection, granulegap |-> 0,
           knownCheck |-> FALSE, startDate |-> 0 - 1, endDate |-> 0 - 1,
           now |-> 0, fetched |-> <<>>, rows |-> <<>>]

\* The knownGap handler before its first request.
NoResponse == [statusCode |-> 0, operation |-> "none", range |-> <<0, 0>>,
               found |-> {}]

\* The registration handler between two requests.
CfgIdle == [pc |-> "idle", req |-> <<>>, asked |-> <<>>, force |-> FALSE,
            current |-> {}, cur |-> NoCollection, status |-> "none"]

\* ----------------------------------------------------------- event parsing
Message(id, arn, c, b, e) ==
    [messageId |-> id, eventSourceARN |-> arn, collectionId |-> c,
     beginningDateTime |-> b, endingDateTime |-> e]

\* delete = True as soon as one record's eventSourceARN is the deletion queue.
DeleteFlag(ev) == \E i \in DOMAIN ev : ev[i].eventSourceARN = DELETION_QUEUE_ARN

\* Keys of records_by_collection in insertion order: collections in order of
\* first occurrence in the event.
RECURSIVE GroupOrder(_, _)
GroupOrder(ev, seen) ==
    IF ev = <<>> THEN <<>>
    ELSE IF Head(ev).collectionId \in seen THEN GroupOrder(Tail(ev), seen)
    ELSE <<Head(ev).collectionId>> \o
         GroupOrder(Tail(ev), seen \cup {Head(ev).collectionId})

\* records_by_collection[c]: the group's records and message ids, in order.
RECURSIVE GroupOf(_, _)
GroupOf(ev, c) ==
    IF ev = <<>> THEN <<>>
    ELSE IF Head(ev).collectionId = c THEN <<Head(ev)>> \o GroupOf(Tail(ev), c)
    ELSE GroupOf(Tail(ev), c)

MessageIds(ev, c) == [i \in DOMAIN GroupOf(ev, c) |-> GroupOf(ev, c)[i].messageId]

\* Variant of the buffer: only the last record of the group is staged.
RecordsLastOnly(ev, c) ==
    IF GroupOf(ev, c) = <<>> THEN <<>>
    ELSE <<[start_ts |-> GroupOf(ev, c)[Len(GroupOf(ev, c))].beginningDateTime,
            end_ts |-> GroupOf(ev, c)[Len(GroupOf(ev, c))].endingDateTime]>>

\* The buffer lines of a group: one (start_ts, end_ts) per record, staged by
\* COPY into input_records.
Records(ev, c) ==
    [i \in DOMAIN GroupOf(ev, c) |->
        [start_ts |-> GroupOf(ev, c)[i].beginningDateTime,
         end_ts |-> GroupOf(ev, c)[i].endingDateTime]]

\* ---------------------------------------------------------- SQL statements
\* Variant of input_ranges: the start is truncated to the second as well.
input_ranges_TruncStart(R) ==
    {<<date_trunc(R[i].start_ts), RoundEnd(R[i].end_ts)>> : i \in DOMAIN R}

\* input_ranges: tsrange(start_ts, date_trunc('second', end_ts) + 1 second)
input_ranges(R) == {<<R[i].start_ts, RoundEnd(R[i].end_ts)>> : i \in DOMAIN R}

\* Variant of the range check: tsrange() accepts any pair.
RangeError_Never(R) == FALSE

\* Some staged row makes tsrange() raise.
RangeError(R) == \E i \in DOMAIN R : ~tsrangeOK(R[i].start_ts, RoundEnd(R[i].end_ts))

\* EXCLUDE USING gist (tsrange(start_ts, end_ts) WITH &&) on the partition:
\* no inserted row may overlap a kept row or another inserted row.
ExclusionOK(kept, new) ==
    /\ \A n \in new : \A k \in kept : ~Overlaps(n, k)
    /\ \A n1 \in new : \A n2 \in new \ {n1} : ~Overlaps(n1, n2)

\* The overlap check of add_gaps: rows of gaps x input_records that overlap.
overlaps(G, R) ==
    {p \in G \X input_ranges(R) : Overlaps(p[1], p[2])}

\* Variant of removed_gaps: without the -|- test.
removed_gaps_OverlapOnly(G, I) == {g \in G : \E r \in I : Overlaps(g, r)}

\* removed_gaps: rows that overlap or touch an input range.
removed_gaps(G, I) == {g \in G : \E r \in I : Overlaps(g, r) \/ Adjacent(g, r)}

\* Variant of add_gaps_sql: the end of every merged range is rounded up as
\* the ends of the input records are.
add_gaps_sql_RoundsMerged(G, R) ==
    LET I == input_ranges(R)
        removed == removed_gaps(G, I)
        final_ranges == {<<r[1], RoundEnd(r[2])>> : r \in range_agg(I \cup removed)}
        kept == G \ removed
    IN  [ok |-> ~RangeError(R) /\ ExclusionOK(kept, final_ranges),
         rows |-> kept \cup final_ranges]

\* The merge statement of add_gaps on committed rows G and staged records R.
add_gaps_sql(G, R) ==
    LET I == input_ranges(R)
        removed == removed_gaps(G, I)
        final_ranges == range_agg(I \cup removed)
        kept == G \ removed
    IN  [ok |-> ~RangeError(R) /\ ExclusionOK(kept, final_ranges),
         rows |-> kept \cup final_ranges]

\* Variant of update_gaps.sql: only the earliest overlapped gap is split.
update_gaps_sql_OneGap(G, R) ==
    LET I == range_agg({<<R[i].start_ts, RoundEnd(R[i].end_ts)>> : i \in DOMAIN R})
        hit == {g \in G : \E r \in I : Overlaps(g, r)}
        affected == IF hit = {} THEN {}
                    ELSE {CHOOSE g \in hit : \A h \in hit : g[1] <= h[1]}
        remains == UNION {range_minus(g, I) : g \in affected}
        kept == G \ affected
    IN  [ok |-> ~RangeError(R) /\ ExclusionOK(kept, remains),
         rows |-> kept \cup remains]

\* Variant of the granule ranges: the end is taken as staged.
granule_ranges_NoRound(R) == {<<R[i].start_ts, R[i].end_ts>> : i \in DOMAIN R}

\* The granule ranges of update_gaps.sql: ends rounded up like input_ranges.
granule_ranges(R) == {<<R[i].start_ts, RoundEnd(R[i].end_ts)>> : i \in DOMAIN R}

\* update_gaps.sql on committed rows G and staged records R: every gap that
\* overlaps a granule range is deleted and what the granules leave of it is
\* inserted.
update_gaps_sql(G, R) ==
    LET I == range_agg(granule_ranges(R))
        affected == {g \in G : \E r \in I : Overlaps(g, r)}
        remains == UNION {range_minus(g, I) : g \in affected}
        kept == G \ affected
    IN  [ok |-> ~RangeError(R) /\ ExclusionOK(kept, remains),
         rows |-> kept \cup remains]

\* Trigger on insert into collections: the initial gap over the extent.
collection_insert_trigger(ext) == {<<ext[1], ext[2]>>}


\* ---------------------------------------------------------------- backfill
\* gapMigrationStreamMessageCompiler: producers page through the catalog
\* and put one message per granule on result_queue, consumers take the
\* messages and send them to SQS in batches, process_collection runs both
\* in one TaskGroup.

\* The sentinel process_collection puts for each consumer.
None == "None"

\* max_retries of fetch_cmr_range.
max_retries == 3

ProducerIds == 1..MaxProducers

\* Python's round on num/den: to the nearest integer, a tie to the even one.
round(num, den) ==
    LET q == num \div den
        r == num % den
    IN  IF 2 * r < den THEN q
        ELSE IF 2 * r > den THEN q + 1
        ELSE IF q % 2 = 0 THEN q ELSE q + 1

\* get_params: n_consumers = round(n_producers * 1.5) and
\* queue_size = n_producers * 2 * 2000, the 2000 being the page size.
n_consumers(np) == round(np * 3, 2)
queue_size(np) == np * 2 * page_size

ConsumerIds == 1..n_consumers(MaxProducers)

NoOrch == [pc |-> "idle", np |-> 0, nc |-> 0, size |-> 0, signalled |-> 0,
           send_stats |-> 0, statusCode |-> 0]
NoProducer == [pc |-> "none", found |-> 0, left |-> 0, more |-> FALSE,
               retry |-> 0, put |-> 0, slept |-> <<>>]
NoConsumer == [pc |-> "none", batch |-> <<>>, got |-> 0, calls |-> <<>>]

\* Two gapConfig instances that register collections at the same time.
Registrars == {"r1", "r2"}
PartitionedTables == {"gaps", "reasons"}
NoReg == [pc |-> "idle", c |-> NoCollection, created |-> {}, result |-> "none"]

\* ------------------------------------------------------------------- Init
\* The collection ids in use have three different lock keys.
DistinctKeys == [c \in CollectionIds |->
                   IF c = "A" THEN "k1" ELSE IF c = "B" THEN "k2" ELSE "k3"]

\* The ids of the two catalog collections have the same lock key.
SharedKey == [c \in CollectionIds |-> IF c \in {"A", "B"} THEN "k1" ELSE "k3"]

\* The database after gap_schema.sql: no collection, no gap; idle workers.
InitDb ==
    /\ collections = <<>>
    /\ gaps = [c \in CollectionIds |-> {}]
    /\ advisory = [k \in LockKeys |-> NoWorker]
    /\ pc = [w \in Workers |-> "idle"]
    /\ event = [w \in Workers |-> <<>>]
    /\ delete = [w \in Workers |-> FALSE]
    /\ queue = [w \in Workers |-> <<>>]
    /\ cur = [w \in Workers |-> NoCollection]
    /\ pending = [w \in Workers |-> NoTxn]
    /\ failures = [w \in Workers |-> <<>>]
    /\ outcome = [w \in Workers |-> [c \in CollectionIds |-> "none"]]
    /\ warned = [w \in Workers |-> {}]
    /\ hist = [c \in CollectionIds |-> NoHist]
    /\ covered = [c \in CollectionIds |-> {}]
    /\ cfg = CfgIdle
    /\ backfilled = [c \in CollectionIds |-> "none"]
    /\ rd = NoRead
    /\ cancelled = [w \in Workers |-> FALSE]
    /\ orch = NoOrch
    /\ producers = [p \in ProducerIds |-> NoProducer]
    /\ consumers = [c \in ConsumerIds |-> NoConsumer]
    /\ result_queue = <<>>
    /\ reg = [r \in Registrars |-> NoReg]
    /\ pg_class = {}
    /\ ddl = [t \in PartitionedTables |-> NoWorker]
    /\ policy = [sub \in {"ingest", "deletion"} |-> {}]
    /\ reasons = [c \in CollectionIds |-> {}]
    /\ gap_reason = [c \in CollectionIds |-> {}]
    /\ kg = NoResponse

\* No function has been applied.
NoSplit == [start |-> 0, end |-> 0, num_ranges |-> 0, ranges |-> <<>>]

NoId == [short_name |-> <<>>, version |-> <<>>, collection_id |-> <<>>,
         parsed |-> <<>>]

\* `with get_db_connection()` has not been entered.
NoConnection ==
    [pc |-> "idle", attempt |-> 0, conn |-> 0, acquired |-> 0,
     closed |-> {}, yielded |-> <<>>, putconn |-> <<>>, returned |-> <<>>,
     rollback |-> 0, commit |-> 0, body |-> "none", exc |-> "none",
     result |-> "none"]

InitFn == sp = NoSplit /\ ci = NoId /\ dbc = NoConnection

Init == InitDb /\ hashOf = DistinctKeys /\ InitFn

\* The same database when the ids of A and B collide under hashtext.
InitSharedKey == InitDb /\ hashOf = SharedKey /\ InitFn

\* ----------------------------------------------------------- registration
\* INSERT INTO collections ... and the commit: the row with the catalog
\* extent, and the initial gap inserted by the trigger.
InsertCollection(c) ==
    /\ collections' = [x \in Registered \cup {c} |->
                          IF x = c THEN get_cmr_time(c) ELSE collections[x]]
    /\ gaps' = [gaps EXCEPT ![c] = collection_insert_trigger(get_cmr_time(c))]

\* gapConfig.init_collection for a collection not yet in the collections
\* table: the catalog extent is fetched, the partitions are created, the
\* collections row is inserted, the trigger inserts the initial gap, commit.
init_collection(c) ==
    /\ c \in Collections
    /\ c \notin Registered
    /\ InsertCollection(c)
    /\ UNCHANGED <<advisory, pc, event, delete, queue, cur, pending, failures,
                   outcome, warned, hist, covered>>
    /\ UNCHANGED outer

\* ------------------------------------------------------- gapConfig handler
\* get_cmr_time raises "not found in CMR" when the catalog has no item.
CmrHasMatch(c) == c \in Collections

\* An entry of body["collections"] without short_name or version.
Missing == "missing"

\* backfill_behavior.lower()
lower(x) == IF x = "Force" THEN "force" ELSE x

\* Requests: a method, one or two collection entries, the backfill field.
ConfigRequests ==
    [httpMethod : {"POST"},
     collections : {<<a>> : a \in CollectionIds}
                     \cup {<<a, b>> : a \in CollectionIds, b \in CollectionIds},
     backfill : {"", "force", "Force"}]
    \cup [httpMethod : {"POST", "GET"},
          collections : {<<"A">>, <<Missing>>, <<"A", Missing>>},
          backfill : {""}]

\* parse_event raises when an entry lacks short_name or version.
parse_event_raises(r) == \E i \in DOMAIN r.collections : r.collections[i] = Missing

\* check_collections(conn)
check_collections == Registered

\* lambda_handler of gapConfig up to the loop: 400 when the body cannot be
\* parsed, 405 when the method is not POST, else the registered collections
\* are read once.
gapConfig_lambda_handler(r) ==
    /\ cfg.pc = "idle"
    /\ cfg' = IF parse_event_raises(r)
              THEN [CfgIdle EXCEPT !.pc = "done", !.status = "400"]
              ELSE IF r.httpMethod # "POST"
              THEN [CfgIdle EXCEPT !.pc = "done", !.status = "405"]
              ELSE [pc |-> "loop", req |-> r.collections, asked |-> r.collections,
                    force |-> lower(r.backfill) = "force",
                    current |-> check_collections, cur |-> NoCollection,
                    status |-> "none"]
    /\ UNCHANGED <<collections, gaps, backfilled, policy, notConfig>>

\* Variant of the loop: an existing collection is backfilled without the
\* force flag too.
ConfigCollection_AlwaysBackfill(dbok) ==
    /\ cfg.pc = "loop"
    /\ cfg.req # <<>>
    /\ IF Head(cfg.req) \notin cfg.current /\ CmrHasMatch(Head(cfg.req))
          /\ Head(cfg.req) \notin Registered /\ dbok
       THEN InsertCollection(Head(cfg.req))
       ELSE UNCHANGED <<collections, gaps>>
    /\ cfg' = [cfg EXCEPT !.pc = "backfill", !.cur = Head(cfg.req)]
    /\ UNCHANGED <<backfilled, policy, notConfig>>

\* One turn of the loop up to the call of init_migration_stream. For a
\* collection that was not in current_collections, init_collection runs: it
\* commits the row and the initial gap, or (no catalog match, a row that
\* exists by now, a database error) rolls back and returns its message; the
\* handler goes on to the backfill either way. For a collection that was in
\* current_collections the backfill is asked for only with the force flag.
ConfigCollection(dbok) ==
    /\ cfg.pc = "loop"
    /\ cfg.req # <<>>
    /\ LET c == Head(cfg.req) IN
       IF c \notin cfg.current
       THEN /\ IF CmrHasMatch(c) /\ c \notin Registered /\ dbok
               THEN InsertCollection(c)
               ELSE UNCHANGED <<collections, gaps>>
            /\ cfg' = [cfg EXCEPT !.pc = "backfill", !.cur = c]
       ELSE IF cfg.force
       THEN /\ cfg' = [cfg EXCEPT !.pc = "backfill", !.cur = c]
            /\ UNCHANGED <<collections, gaps>>
       ELSE /\ cfg' = [cfg EXCEPT !.req = Tail(@)]
            /\ UNCHANGED <<collections, gaps>>
    /\ UNCHANGED <<backfilled, policy, notConfig>>

\* Variant of init_migration_stream: a failed backfill is logged and the
\* loop goes on.
init_migration_stream_FailureIgnored(ok) ==
    /\ cfg.pc = "backfill"
    /\ backfilled' = [backfilled EXCEPT ![cfg.cur] =
                         IF ok /\ CmrHasMatch(cfg.cur) THEN "ok" ELSE "failed"]
    /\ cfg' = [cfg EXCEPT !.pc = "loop", !.req = Tail(@), !.cur = NoCollection]
    /\ UNCHANGED <<collections, gaps, policy, notConfig>>

\* init_migration_stream: the compiler lambda is invoked and awaited. It
\* fails for a collection the catalog does not know (get_params) and may
\* fail otherwise; a failure ends the request with 500.
init_migration_stream(ok) ==
    /\ cfg.pc = "backfill"
    /\ IF ok /\ CmrHasMatch(cfg.cur)
       THEN /\ backfilled' = [backfilled EXCEPT ![cfg.cur] = "ok"]
            /\ cfg' = [cfg EXCEPT !.pc = "loop", !.req = Tail(@),
                                  !.cur = NoCollection]
       ELSE /\ backfilled' = [backfilled EXCEPT ![cfg.cur] = "failed"]
            /\ cfg' = [cfg EXCEPT !.pc = "done", !.status = "500"]
    /\ UNCHANGED <<collections, gaps, policy, notConfig>>

\* The two SNS subscriptions, in the order update_sns_filter_policy updates
\* them, and those updated when the first `updated` calls of update_policy
\* went through.
Subscriptions == {"ingest", "deletion"}
Updated(updated) ==
    IF updated = "none" THEN {}
    ELSE IF updated = "ingest" THEN {"ingest"} ELSE Subscriptions

\* The ids update_sns_filter_policy builds from the request: short name and
\* raw version, not the collection_id of the database.
new_collection_ids(asked) == {<<asked[i], "raw_version">> : i \in DOMAIN asked}

\* Variant of the merge: the new list replaces the existing one.
merged_ids_Replace(existing_ids, new_ids) == new_ids

\* sorted(existing_ids.union(new_collection_ids)), as a set.
merged_ids(existing_ids, new_ids) == existing_ids \cup new_ids

\* After the loop: update_sns_filter_policy, then 200; an exception of the
\* filter update is caught by the outer except clause and gives 500.
ConfigFinish(updated) ==
    /\ cfg.pc = "loop"
    /\ cfg.req = <<>>
    /\ policy' = [sub \in Subscriptions |->
                    IF sub \in Updated(updated)
                    THEN merged_ids(policy[sub], new_collection_ids(cfg.asked))
                    ELSE policy[sub]]
    /\ cfg' = [cfg EXCEPT !.pc = "done",
                          !.status = IF Updated(updated) = Subscriptions
                                     THEN "200" ELSE "500"]
    /\ UNCHANGED <<collections, gaps, backfilled, notConfig>>

\* The response is returned and the handler's locals are released.
ConfigReturn ==
    /\ cfg.pc = "done"
    /\ cfg' = CfgIdle
    /\ UNCHANGED <<collections, gaps, backfilled, policy, notConfig>>

\* ------------------------------------------------------- gapUpdate handler
\* lambda_handler, up to the per-collection loop: the records are parsed and
\* grouped by collection, the delete flag is set, failures = [].
lambda_handler(w, ev) ==
    /\ pc[w] = "idle"
    /\ event' = [event EXCEPT ![w] = ev]
    /\ delete' = [delete EXCEPT ![w] = DeleteFlag(ev)]
    /\ queue' = [queue EXCEPT ![w] = GroupOrder(ev, {})]
    /\ failures' = [failures EXCEPT ![w] = <<>>]
    /\ outcome' = [outcome EXCEPT ![w] = [c \in CollectionIds |-> "none"]]
    /\ warned' = [warned EXCEPT ![w] = {}]
    /\ pc' = [pc EXCEPT ![w] = "loop"]
    /\ cancelled' = [cancelled EXCEPT ![w] = FALSE]
    /\ UNCHANGED <<collections, gaps, advisory, cur, pending, hist, covered>>
    /\ UNCHANGED <<cfgvars, rdvars, fixed, msvars, regvars, rsnvars,
                   fnvars>>

\* Variant of validate_collections: every collection passes.
validate_collections_AlwaysTrue(c) == TRUE

\* validate_collections({collection_id}, conn)
validate_collections(c) == c \in Registered

\* One turn of the loop up to the lock request. An unregistered collection
\* has its message ids added to failures before the raise and again by the
\* except clause. Otherwise the buffer is built, input_records is created
\* and filled, and the worker asks for the advisory lock.
StartGroup(w) ==
    /\ pc[w] = "loop"
    /\ queue[w] # <<>>
    /\ LET c == Head(queue[w]) IN
       IF ~validate_collections(c)
       THEN /\ failures' = [failures EXCEPT
                   ![w] = @ \o MessageIds(event[w], c) \o MessageIds(event[w], c)]
            /\ outcome' = [outcome EXCEPT ![w][c] = "failed"]
            /\ queue' = [queue EXCEPT ![w] = Tail(@)]
            /\ UNCHANGED <<pc, cur, pending>>
       ELSE /\ cur' = [cur EXCEPT ![w] = c]
            /\ pending' = [pending EXCEPT ![w] = [active |-> TRUE, rows |-> {}]]
            /\ pc' = [pc EXCEPT ![w] = "wait"]
            /\ UNCHANGED <<failures, outcome, queue>>
    /\ UNCHANGED <<collections, gaps, advisory, event, delete, warned, hist, covered>>
    /\ UNCHANGED outer

\* Variant of the lock: the request never waits.
LockFree_NeverBlocks(k) == TRUE

\* Variant of the lock: one lock for the whole gaps table (LOCK TABLE), free
\* only when no worker holds any key.
LockFree_TableLock(k) == \A j \in DOMAIN advisory : advisory[j] = NoWorker

\* pg_advisory_xact_lock(k) returns once no other transaction holds k.
LockFree(k) == advisory[k] = NoWorker

AcquireLock(w) ==
    /\ pc[w] = "wait"
    /\ LockFree(hashtext(cur[w]))
    /\ advisory' = [advisory EXCEPT ![hashtext(cur[w])] = w]
    /\ pc' = [pc EXCEPT ![w] = "locked"]
    /\ UNCHANGED <<collections, gaps, event, delete, queue, cur, pending,
                   failures, outcome, warned, hist, covered>>
    /\ UNCHANGED outer

\* Variant of the except clause: the loop stops at the first failed group.
RollbackStopsBatch(w) ==
    /\ pending' = [pending EXCEPT ![w] = NoTxn]
    /\ advisory' = [k \in DOMAIN advisory |->
                      IF advisory[k] = w THEN NoWorker ELSE advisory[k]]
    /\ failures' = [failures EXCEPT ![w] = @ \o MessageIds(event[w], cur[w])]
    /\ outcome' = [outcome EXCEPT ![w][cur[w]] = "failed"]
    /\ queue' = [queue EXCEPT ![w] = <<>>]
    /\ cur' = [cur EXCEPT ![w] = NoCollection]
    /\ pc' = [pc EXCEPT ![w] = "loop"]

\* Variant of the rollback: the advisory lock outlives the transaction (a
\* session-level lock).
Rollback_KeepsLock(w) ==
    /\ pending' = [pending EXCEPT ![w] = NoTxn]
    /\ advisory' = advisory
    /\ failures' = [failures EXCEPT ![w] = @ \o MessageIds(event[w], cur[w])]
    /\ outcome' = [outcome EXCEPT ![w][cur[w]] = "failed"]
    /\ queue' = [queue EXCEPT ![w] = Tail(@)]
    /\ cur' = [cur EXCEPT ![w] = NoCollection]
    /\ pc' = [pc EXCEPT ![w] = "loop"]

\* conn.rollback() and the handler's except clause: the open transaction is
\* dropped with its lock, every message id of the group goes to failures,
\* and the loop goes on with the next group.
Rollback(w) ==
    /\ pending' = [pending EXCEPT ![w] = NoTxn]
    /\ advisory' = [k \in DOMAIN advisory |->
                      IF advisory[k] = w THEN NoWorker ELSE advisory[k]]
    /\ failures' = [failures EXCEPT ![w] = @ \o MessageIds(event[w], cur[w])]
    /\ outcome' = [outcome EXCEPT ![w][cur[w]] = "failed"]
    /\ queue' = [queue EXCEPT ![w] = Tail(@)]
    /\ cur' = [cur EXCEPT ![w] = NoCollection]
    /\ pc' = [pc EXCEPT ![w] = "loop"]

\* The statements after the lock, on the rows committed at that moment
\* (READ COMMITTED): add_gaps when the delete flag is set, else update_gaps.
Statement(w) ==
    IF delete[w] THEN add_gaps_sql(gaps[cur[w]], Records(event[w], cur[w]))
    ELSE update_gaps_sql(gaps[cur[w]], Records(event[w], cur[w]))

Execute(w) ==
    /\ pc[w] = "locked"
    /\ IF Statement(w).ok
       THEN /\ pending' = [pending EXCEPT ![w] = [active |-> TRUE, rows |-> Statement(w).rows]]
            /\ warned' = [warned EXCEPT ![w] =
                  IF delete[w] /\ overlaps(gaps[cur[w]], Records(event[w], cur[w])) # {}
                  THEN @ \cup {cur[w]} ELSE @]
            /\ pc' = [pc EXCEPT ![w] = "executed"]
            /\ UNCHANGED <<advisory, failures, outcome, queue, cur>>
       ELSE /\ Rollback(w)
            /\ UNCHANGED warned
    /\ UNCHANGED <<collections, gaps, event, delete, hist, covered>>
    /\ UNCHANGED outer

\* The first whole second after t.
NextSecond(t) ==
    CHOOSE s \in Ticks : s % TicksPerSec = 0 /\ s > t /\ s - t <= TicksPerSec

\* Ticks of the granule of a message: from its beginning up to the first
\* whole second after its end.
GranuleTicks(m) ==
    {t \in Ticks : m.beginningDateTime <= t /\ t < NextSecond(m.endingDateTime)}

\* Ticks covered by the rows of G, and the maximal runs of a set of ticks.
TicksOf(G) == {t \in Ticks : \E g \in G : g[1] <= t /\ t < g[2]}

Runs(T) ==
    {r \in Ticks \X Ticks :
        /\ r[1] < r[2]
        /\ \A t \in r[1]..(r[2] - 1) : t \in T
        /\ (r[1] - 1) \notin T
        /\ r[2] \notin T}

\* Variant of the commit: the statement's rows are installed for every
\* registered collection (a statement without its collection_id predicate).
Commit_EveryCollection(w, track) ==
    /\ pc[w] = "executed"
    /\ gaps' = [c \in CollectionIds |->
                  IF c \in Registered THEN pending[w].rows ELSE gaps[c]]
    /\ advisory' = [k \in DOMAIN advisory |->
                      IF advisory[k] = w THEN NoWorker ELSE advisory[k]]
    /\ pending' = [pending EXCEPT ![w] = NoTxn]
    /\ outcome' = [outcome EXCEPT ![w][cur[w]] = "committed"]
    /\ queue' = [queue EXCEPT ![w] = Tail(@)]
    /\ cur' = [cur EXCEPT ![w] = NoCollection]
    /\ pc' = [pc EXCEPT ![w] = "loop"]
    /\ UNCHANGED <<collections, event, delete, failures, warned, hist, covered>>
    /\ UNCHANGED outer

\* conn.commit(): the transaction's rows replace the committed rows of the
\* collection and the lock is released.
Commit(w, track) ==
    /\ pc[w] = "executed"
    /\ gaps' = [gaps EXCEPT ![cur[w]] = pending[w].rows]
    /\ advisory' = [k \in DOMAIN advisory |->
                      IF advisory[k] = w THEN NoWorker ELSE advisory[k]]
    /\ pending' = [pending EXCEPT ![w] = NoTxn]
    /\ outcome' = [outcome EXCEPT ![w][cur[w]] = "committed"]
    /\ queue' = [queue EXCEPT ![w] = Tail(@)]
    /\ cur' = [cur EXCEPT ![w] = NoCollection]
    /\ pc' = [pc EXCEPT ![w] = "loop"]
    /\ hist' = IF track
               THEN [hist EXCEPT ![cur[w]] =
                       [kind |-> IF delete[w] THEN "delete" ELSE "ingest",
                        recs |-> Records(event[w], cur[w]),
                        pre |-> IF delete[w] THEN gaps[cur[w]] ELSE {}]]
               ELSE hist
    /\ covered' = [covered EXCEPT ![cur[w]] =
                     IF delete[w] \/ hist[cur[w]].kind = "delete" THEN {}
                     ELSE @ \cup UNION {GranuleTicks(GroupOf(event[w], cur[w])[i]) :
                                           i \in DOMAIN GroupOf(event[w], cur[w])}]
    /\ UNCHANGED <<collections, event, delete, failures, warned>>
    /\ UNCHANGED outer

\* A statement of the open transaction fails (staging, lock, update
\* statement or commit): rollback, and the error reaches the handler.
TxnError(w) ==
    /\ pc[w] \in {"wait", "locked", "executed"}
    /\ Rollback(w)
    /\ UNCHANGED <<collections, gaps, event, delete, warned, hist, covered>>
    /\ UNCHANGED outer

\* The worker is cancelled (platform timeout) anywhere in the handler: the
\* process and its connection are gone, so the open transaction is aborted
\* and its transaction-level lock released; nothing is returned.
Cancel(w) ==
    /\ pc[w] # "idle"
    /\ pending' = [pending EXCEPT ![w] = NoTxn]
    /\ advisory' = [k \in DOMAIN advisory |->
                      IF advisory[k] = w THEN NoWorker ELSE advisory[k]]
    /\ pc' = [pc EXCEPT ![w] = "idle"]
    /\ event' = [event EXCEPT ![w] = <<>>]
    /\ delete' = [delete EXCEPT ![w] = FALSE]
    /\ queue' = [queue EXCEPT ![w] = <<>>]
    /\ cur' = [cur EXCEPT ![w] = NoCollection]
    /\ failures' = [failures EXCEPT ![w] = <<>>]
    /\ outcome' = [outcome EXCEPT ![w] = [c \in CollectionIds |-> "none"]]
    /\ warned' = [warned EXCEPT ![w] = {}]
    /\ cancelled' = [cancelled EXCEPT ![w] = pc[w] \in {"locked", "executed"}]
    /\ UNCHANGED <<collections, gaps, hist, covered>>
    /\ UNCHANGED <<cfgvars, rdvars, fixed, msvars, regvars, rsnvars,
                   fnvars>>

\* The loop is over: the handler returns batchItemFailures and its locals
\* are released.
batchItemFailures(w) == failures[w]

Return(w) ==
    /\ pc[w] = "loop"
    /\ queue[w] = <<>>
    /\ pc' = [pc EXCEPT ![w] = "idle"]
    /\ event' = [event EXCEPT ![w] = <<>>]
    /\ delete' = [delete EXCEPT ![w] = FALSE]
    /\ failures' = [failures EXCEPT ![w] = <<>>]
    /\ outcome' = [outcome EXCEPT ![w] = [c \in CollectionIds |-> "none"]]
    /\ warned' = [warned EXCEPT ![w] = {}]
    /\ UNCHANGED <<collections, gaps, advisory, queue, cur, pending, hist, covered>>
    /\ UNCHANGED outer

\* ------------------------------------------------------------------ reader
\* ORDER BY start_ts on a set of rows.
RECURSIVE OrderByStart(_)
OrderByStart(S) ==
    IF S = {} THEN <<>>
    ELSE LET first == CHOOSE g \in S : \A h \in S : g[1] <= h[1]
         IN  <<first>> \o OrderByStart(S \ {first})

\* Variant of the snapshot: the reader also sees the rows of open
\* transactions in place of the committed ones.
Snapshot_ReadUncommitted(c) ==
    IF \E w \in Workers : pc[w] = "executed" /\ cur[w] = c
    THEN pending[CHOOSE w \in Workers : pc[w] = "executed" /\ cur[w] = c].rows
    ELSE gaps[c]

\* The rows of gaps a statement sees under READ COMMITTED: those committed
\* when it starts, whatever transactions are open.
Snapshot(c) == gaps[c]

\* startDate / endDate of a read that gives none (None, bound as NULL).
NoDate == 0 - 1

\* The year of a timestamp. The open end of a collection's extent is the
\* largest timestamp, in year 9999; every earlier tick is in the present.
year(t) == IF t >= MaxT THEN 9999 ELSE 2000

\* Variant of the size test: the range must be shorter than the tolerance.
AtLeast_Reversed(s, e, tolerance) == e - s <= tolerance * TicksPerSec

\* EXTRACT(EPOCH FROM (e - s)) >= tolerance, the tolerance in seconds.
AtLeast(s, e, tolerance) == e - s >= tolerance * TicksPerSec

\* (start_date IS NULL OR end_ts > start_date) AND
\* (end_date IS NULL OR start_ts < end_date)
InWindow(r, start_date, end_date) ==
    /\ (start_date = NoDate \/ r[2] > start_date)
    /\ (end_date = NoDate \/ r[1] < end_date)

\* The rows of reasons the LEFT JOIN matches with gap g.
Joined(g, R, start_date, end_date) ==
    {r \in R : Overlaps(g, r) /\ InWindow(r, start_date, end_date)}

\* Variant of the known filter: rows with a reason are kept.
known_filter_Off(rows, knownCheck) == rows

\* known_filter: AND r.reason IS NULL when knownCheck is set.
known_filter(rows, knownCheck) ==
    IF knownCheck THEN {q \in rows : q[3] = NULL} ELSE rows

\* Variant of the SELECT list: the row of a matched gap is the whole gap.
SelectRow_WholeGap(g, r) == <<g[1], g[2], r[3]>>

\* SELECT GREATEST(g.start_ts, r.start_ts), LEAST(g.end_ts, r.end_ts),
\* r.reason for a gap and a matched reason.
SelectRow(g, r) == <<Max(g[1], r[1]), Min(g[2], r[2]), r[3]>>

\* The SELECT DISTINCT of fetch_time_gaps on gaps G and reasons R of one
\* collection: the gaps in the window and of the tolerated size, each
\* joined with the reasons that overlap it (one row per matched reason,
\* or one row with NULL reason when none matches), the rows of the
\* tolerated size, then the known filter.
gap_query(G, R, tolerance, knownCheck, start_date, end_date) ==
    LET kept == {g \in G : /\ InWindow(g, start_date, end_date)
                           /\ AtLeast(g[1], g[2], tolerance)}
        matched == UNION {{SelectRow(g, r) :
                              r \in Joined(g, R, start_date, end_date)} :
                          g \in kept}
        alone == {<<g[1], g[2], NULL>> :
                     g \in {h \in kept :
                               Joined(h, R, start_date, end_date) = {}}}
        rows == {q \in matched \cup alone : AtLeast(q[1], q[2], tolerance)}
    IN  known_filter(rows, knownCheck)

\* Variant of the replacement: the end of the last row is replaced and the
\* row keeps its reason.
replace_9999_KeepReason(rows, now) ==
    IF rows # <<>> /\ year(rows[Len(rows)][2]) = 9999
    THEN [rows EXCEPT ![Len(rows)] = <<@[1], now, @[3]>>]
    ELSE rows

\* if rows and rows[-1][1].year == 9999:
\*     rows[-1] = (rows[-1][0], datetime.now())
replace_9999(rows, now) ==
    IF rows # <<>> /\ year(rows[Len(rows)][2]) = 9999
    THEN [rows EXCEPT ![Len(rows)] = <<@[1], now>>]
    ELSE rows

\* What fetch_time_gaps returns: the rows of the query in start order, the
\* last one replaced when it ends in year 9999.
fetch_time_gaps_rows(c, granulegap, knownCheck, startDate, endDate, now) ==
    replace_9999(OrderByStart(gap_query(Snapshot(c), reasons[c], granulegap,
                                        knownCheck, startDate, endDate)),
                 now)

\* fetch_time_gaps: one SELECT on the committed rows, then the replacement
\* of the last row. fetched holds what cursor.fetchall() gave, rows what
\* is returned. The reader takes no lock and writes nothing.
fetch_time_gaps(c, granulegap, knownCheck, startDate, endDate, now) ==
    /\ rd' = [collection |-> c, granulegap |-> granulegap,
              knownCheck |-> knownCheck, startDate |-> startDate,
              endDate |-> endDate, now |-> now,
              fetched |-> OrderByStart(gap_query(Snapshot(c), reasons[c],
                                                 granulegap, knownCheck,
                                                 startDate, endDate)),
              rows |-> fetch_time_gaps_rows(c, granulegap, knownCheck,
                                            startDate, endDate, now)]
    /\ UNCHANGED notReader

\* datetime.now() of a read: a tick of the present.
Nows == {1, MaxT - 1}

\* ------------------------------------------------------ reason annotations
\* The reasons of the annotations.
ReasonTexts == {"outage"}

\* INSERT INTO reasons (collection_id, start_ts, end_ts, reason) and the
\* commit. The row goes to the partition of the collection, whose
\* exclusion constraint rejects a range that overlaps a row it holds, and
\* tsrange() rejects a start after the end.
insert_reason(c, start_ts, end_ts, reason) ==
    /\ c \in Registered
    /\ tsrangeOK(start_ts, end_ts)
    /\ \A r \in reasons[c] : ~Overlaps(<<start_ts, end_ts>>, r)
    /\ reasons' = [reasons EXCEPT ![c] = @ \cup {<<start_ts, end_ts, reason>>}]
    /\ UNCHANGED <<gap_reason, kg, notReasons>>

\* tsrange(start, end) @> tsrange(start_ts, end_ts)
Contains(r1, r2) == isempty(r2) \/ (r1[1] <= r2[1] /\ r2[2] <= r1[2])

\* The reason column of a row of gaps.
reason_column(c, g) ==
    IF \E q \in gap_reason[c] : q[1] = g[1] /\ q[2] = g[2]
    THEN (CHOOSE q \in gap_reason[c] : q[1] = g[1] /\ q[2] = g[2])[3]
    ELSE NULL

\* knownGap.get_gaps: the rows of gaps inside the requested range.
get_gaps(c, start, end) == {g \in gaps[c] : Contains(<<start, end>>, g)}

\* knownGap.validate_operation
validate_operation(c, found, operation) ==
    IF found = {} THEN "No gaps found in range"
    ELSE IF operation \in {"delete", "update"}
            /\ \E g \in found : reason_column(c, g) = NULL
         THEN "Cannot " \o operation \o " NULL reasons"
    ELSE IF operation = "create" /\ \E g \in found : reason_column(c, g) # NULL
         THEN "Cannot create reason for gaps that already have one"
    ELSE "valid"

\* The bodies of a PUT request that pass the schema: create and update
\* carry a reason, delete carries none.
Operations == {"create", "update", "delete"}

\* knownGap.lambda_handler for a PUT request that passes the schema:
\* update_reason reads the gaps inside the range, validates the operation
\* against their reason column and writes that column; a ValueError or a
\* database error is answered with 400, and the connection commits when
\* the handler returns.
update_reason(c, start, end, reason, operation) ==
    LET found == get_gaps(c, start, end)
        others == {q \in gap_reason[c] :
                      \A g \in found : <<q[1], q[2]>> # g}
    IN  /\ c \in Registered
        /\ (operation = "delete") = (reason = NULL)
        /\ IF ~tsrangeOK(start, end)
                \/ validate_operation(c, found, operation) # "valid"
           THEN /\ kg' = [statusCode |-> 400, operation |-> operation,
                          range |-> <<start, end>>, found |-> found]
                /\ UNCHANGED gap_reason
           ELSE /\ kg' = [statusCode |-> 200, operation |-> operation]
                /\ gap_reason' =
                      [gap_reason EXCEPT ![c] =
                          IF operation = "delete" THEN others
                          ELSE others \cup
                                   {<<g[1], g[2], reason>> : g \in found}]
        /\ UNCHANGED <<reasons, notReasons>>

\* ------------------------------------------------------- backfill tasks
\* The tasks of the running backfill.
ProducerTasks == 1..orch.np
ConsumerTasks == 1..orch.nc

\* lambda_handler and the start of process_collection: get_params fixes the
\* numbers of tasks and the queue size, the TaskGroup creates the producer
\* and consumer tasks, and the orchestrator waits for the producers. g[p]
\* is the number of granules the catalog holds in the sub-range of p.
process_collection(np, g) ==
    /\ orch.pc = "idle"
    /\ orch' = [pc |-> "gather_producers", np |-> np, nc |-> n_consumers(np),
                size |-> queue_size(np), signalled |-> 0, send_stats |-> 0,
                statusCode |-> 0]
    /\ producers' = [p \in ProducerIds |->
                       IF p <= np
                       THEN [NoProducer EXCEPT !.pc = "fetch", !.found = g[p]]
                       ELSE NoProducer]
    /\ consumers' = [c \in ConsumerIds |->
                       IF c <= n_consumers(np)
                       THEN [NoConsumer EXCEPT !.pc = "get"]
                       ELSE NoConsumer]
    /\ result_queue' = <<>>
    /\ UNCHANGED notStream

\* Variant of the failure of a task: a plain gather without the TaskGroup,
\* which raises at once and leaves the other tasks as they are.
TaskGroupAbort_Gather(failed) ==
    /\ orch' = [orch EXCEPT !.pc = "raised"]
    /\ producers' = [producers EXCEPT ![failed].pc = "failed"]
    /\ UNCHANGED <<consumers, result_queue>>

\* A task raised: the TaskGroup asks every task that has not finished to
\* cancel, and so the orchestrator, which leaves its await.
TaskGroupAbort(failed) ==
    /\ orch' = [orch EXCEPT !.pc = "aborting"]
    /\ producers' = [producers EXCEPT ![failed].pc = "failed"]
    /\ UNCHANGED <<consumers, result_queue>>

\* A task that was asked to cancel gets CancelledError at the await where
\* it is suspended (the request, the put, the get, the send); neither
\* except clause of the tasks catches it, so the task ends.
CancelProducer(p) ==
    /\ orch.pc = "aborting"
    /\ producers[p].pc \in {"fetch", "put"}
    /\ producers' = [producers EXCEPT ![p].pc = "cancelled"]
    /\ UNCHANGED <<orch, consumers, result_queue>>
    /\ UNCHANGED notStream

CancelConsumer(c) ==
    /\ orch.pc = "aborting"
    /\ consumers[c].pc \in {"get", "send", "flush"}
    /\ consumers' = [consumers EXCEPT ![c].pc = "cancelled"]
    /\ UNCHANGED <<orch, producers, result_queue>>
    /\ UNCHANGED notStream

\* The TaskGroup has waited for every task: it raises, and
\* process_collection raises "Failed to process collection".
TaskGroupRaise ==
    /\ orch.pc = "aborting"
    /\ \A q \in ProducerIds : producers[q].pc \notin {"fetch", "put"}
    /\ \A c \in ConsumerIds : consumers[c].pc \notin {"get", "send", "flush"}
    /\ orch' = [orch EXCEPT !.pc = "raised"]
    /\ UNCHANGED <<producers, consumers, result_queue>>
    /\ UNCHANGED notStream

\* The end of the backfill's lambda_handler: 200 when process_collection
\* returned, 500 when it raised.
stream_lambda_handler_return ==
    /\ orch.pc \in {"returned", "raised"}
    /\ orch.statusCode = 0
    /\ orch' = [orch EXCEPT
                  !.statusCode = IF orch.pc = "returned" THEN 200 ELSE 500]
    /\ UNCHANGED <<producers, consumers, result_queue>>
    /\ UNCHANGED notStream

\* Variant of fetch_cmr_range: the retry count is kept from page to page.
fetch_cmr_range_NoReset(p, ok, more) ==
    /\ orch.pc \in {"gather_producers"}
    /\ producers[p].pc = "fetch"
    /\ IF ~ok
       THEN IF producers[p].retry < max_retries
            THEN /\ producers' =
                      [producers EXCEPT
                         ![p].retry = @ + 1,
                         ![p].slept = Append(@, producers[p].retry ^ 2)]
                 /\ UNCHANGED <<orch, consumers, result_queue>>
            ELSE TaskGroupAbort(p)
       ELSE LET n == IF producers[p].found < page_size
                     THEN producers[p].found ELSE page_size
            IN  /\ n < producers[p].found => more
                /\ producers' =
                     [producers EXCEPT
                        ![p].pc = IF n = 0 THEN "done" ELSE "put",
                        ![p].left = n,
                        ![p].found = @ - n,
                        ![p].more = more]
                /\ UNCHANGED <<orch, consumers, result_queue>>
    /\ UNCHANGED notStream

\* fetch_cmr_range, one request of a page. A failed request (status other
\* than 200, or an exception) is tried again up to max_retries times, after
\* asyncio.sleep(retry ** 2) with retry counting the failed tries of the
\* page from 0, and then raises. A page without granules ends the producer;
\* otherwise its granules are put one by one, and the producer goes on to
\* the next page, with the for loop over retry started anew, if the
\* response carried a CMR-Search-After header (more). slept holds the
\* sleeps since the last page that was fetched.
fetch_cmr_range(p, ok, more) ==
    /\ orch.pc \in {"gather_producers"}
    /\ producers[p].pc = "fetch"
    /\ IF ~ok
       THEN IF producers[p].retry < max_retries
            THEN /\ producers' =
                      [producers EXCEPT
                         ![p].retry = @ + 1,
                         ![p].slept = Append(@, producers[p].retry ^ 2)]
                 /\ UNCHANGED <<orch, consumers, result_queue>>
            ELSE TaskGroupAbort(p)
       ELSE LET n == IF producers[p].found < page_size
                     THEN producers[p].found ELSE page_size
            IN  /\ n < producers[p].found => more
                /\ producers' =
                     [producers EXCEPT
                        ![p].pc = IF n = 0 THEN "done" ELSE "put",
                        ![p].left = n,
                        ![p].found = @ - n,
                        ![p].more = more,
                        ![p].retry = 0,
                        ![p].slept = <<>>]
                /\ UNCHANGED <<orch, consumers, result_queue>>
    /\ UNCHANGED notStream

\* Variant of the put: an unbounded queue, which never makes a task wait.
ProducerPut_Unbounded(p) ==
    /\ orch.pc = "gather_producers"
    /\ producers[p].pc = "put"
    /\ result_queue' = Append(result_queue, <<p, producers[p].put + 1>>)
    /\ producers' =
         [producers EXCEPT
            ![p].put = @ + 1,
            ![p].left = @ - 1,
            ![p].pc = IF producers[p].left > 1 THEN "put"
                      ELSE IF producers[p].more THEN "fetch" ELSE "done"]
    /\ UNCHANGED <<orch, consumers>>
    /\ UNCHANGED notStream

\* await result_queue.put(message) of fetch_cmr_range: waits while the
\* queue is full.
ProducerPut(p) ==
    /\ orch.pc = "gather_producers"
    /\ producers[p].pc = "put"
    /\ Len(result_queue) < orch.size
    /\ result_queue' = Append(result_queue, <<p, producers[p].put + 1>>)
    /\ producers' =
         [producers EXCEPT
            ![p].put = @ + 1,
            ![p].left = @ - 1,
            ![p].pc = IF producers[p].left > 1 THEN "put"
                      ELSE IF producers[p].more THEN "fetch" ELSE "done"]
    /\ UNCHANGED <<orch, consumers>>
    /\ UNCHANGED notStream

\* await asyncio.gather(*producers) returns when every producer is done.
GatherProducers ==
    /\ orch.pc = "gather_producers"
    /\ \A p \in ProducerTasks : producers[p].pc = "done"
    /\ orch' = [orch EXCEPT !.pc = "signal"]
    /\ UNCHANGED <<producers, consumers, result_queue>>
    /\ UNCHANGED notStream

\* Variant of the signal: one sentinel for all the consumers.
PutSentinel_Once ==
    /\ orch.pc = "signal"
    /\ Len(result_queue) < orch.size
    /\ result_queue' = Append(result_queue, None)
    /\ orch' = [orch EXCEPT !.signalled = @ + 1, !.pc = "gather_consumers"]
    /\ UNCHANGED <<producers, consumers>>
    /\ UNCHANGED notStream

\* for _ in range(n_consumers): await result_queue.put(None)
PutSentinel ==
    /\ orch.pc = "signal"
    /\ Len(result_queue) < orch.size
    /\ result_queue' = Append(result_queue, None)
    /\ orch' = [orch EXCEPT
                  !.signalled = @ + 1,
                  !.pc = IF orch.signalled + 1 = orch.nc
                         THEN "gather_consumers" ELSE "signal"]
    /\ UNCHANGED <<producers, consumers>>
    /\ UNCHANGED notStream

\* Variant of the consumer: on the sentinel it exits without sending the
\* batch it holds.
ConsumerGet_NoFlush(c) ==
    /\ orch.pc # "aborting"
    /\ consumers[c].pc = "get"
    /\ result_queue # <<>>
    /\ result_queue' = Tail(result_queue)
    /\ LET item == Head(result_queue)
       IN  IF item = None
           THEN consumers' = [consumers EXCEPT ![c].got = @ + 1, ![c].pc = "done"]
           ELSE consumers' =
                  [consumers EXCEPT
                     ![c].batch = Append(@, item),
                     ![c].pc = IF Len(consumers[c].batch) + 1 >= BatchFull
                               THEN "send" ELSE "get"]
    /\ UNCHANGED <<orch, producers>>
    /\ UNCHANGED notStream

\* item = await result_queue.get() of send_to_sqs and what follows up to
\* the next await: the sentinel ends the loop, after a last send if the
\* batch is not empty; a message joins the batch, which is sent when full.
ConsumerGet(c) ==
    /\ orch.pc # "aborting"
    /\ consumers[c].pc = "get"
    /\ result_queue # <<>>
    /\ result_queue' = Tail(result_queue)
    /\ LET item == Head(result_queue)
       IN  IF item = None
           THEN consumers' =
                  [consumers EXCEPT
                     ![c].got = @ + 1,
                     ![c].pc = IF consumers[c].batch # <<>>
                               THEN "flush" ELSE "done"]
           ELSE consumers' =
                  [consumers EXCEPT
                     ![c].batch = Append(@, item),
                     ![c].pc = IF Len(consumers[c].batch) + 1 >= BatchFull
                               THEN "send" ELSE "get"]
    /\ UNCHANGED <<orch, producers>>
    /\ UNCHANGED notStream

\* await sqs_client.send_message_batch(...) of send_to_sqs, for a full
\* batch (send) or for the last one (flush). After a call that returns the
\* batch is counted in send_stats; an exception of the call is logged and
\* the consumer goes on.
send_message_batch(c, ok) ==
    /\ orch.pc # "aborting"
    /\ consumers[c].pc \in {"send", "flush"}
    /\ consumers' =
         [consumers EXCEPT
            ![c].calls = Append(@, [Entries |-> consumers[c].batch]),
            ![c].batch = <<>>,
            ![c].pc = IF consumers[c].pc = "send" THEN "get" ELSE "done"]
    /\ orch' = [orch EXCEPT
                  !.send_stats = IF ok THEN @ + Len(consumers[c].batch) ELSE @]
    /\ UNCHANGED <<producers, result_queue>>
    /\ UNCHANGED notStream

\* await asyncio.gather(*consumers) returns when every consumer has left
\* its loop; the TaskGroup is left and process_collection returns.
GatherConsumers ==
    /\ orch.pc = "gather_consumers"
    /\ \A c \in ConsumerTasks : consumers[c].pc = "done"
    /\ orch' = [orch EXCEPT !.pc = "returned"]
    /\ UNCHANGED <<producers, consumers, result_queue>>
    /\ UNCHANGED notStream

\* The granule counts of the sub-ranges of a backfill.
RECURSIVE Total(_, _)
Total(g, p) == IF p = 0 THEN 0 ELSE g[p] + Total(g, p - 1)
GranuleCounts(np) ==
    {g \in [ProducerIds -> 0..MaxGranules] :
        /\ Total(g, np) <= MaxGranules
        /\ \A p \in ProducerIds : p > np => g[p] = 0}

NextStream ==
    \/ \E np \in ProducerIds : \E g \in GranuleCounts(np) :
          process_collection(np, g)
    \/ \E p \in ProducerIds : \E ok, more \in BOOLEAN : fetch_cmr_range(p, ok, more)
    \/ \E p \in ProducerIds : ProducerPut(p)
    \/ GatherProducers
    \/ PutSentinel
    \/ \E c \in ConsumerIds : ConsumerGet(c)
    \/ \E c \in ConsumerIds : \E ok \in BOOLEAN : send_message_batch(c, ok)
    \/ GatherConsumers
    \/ \E p \in ProducerIds : CancelProducer(p)
    \/ \E c \in ConsumerIds : CancelConsumer(c)
    \/ TaskGroupRaise
    \/ stream_lambda_handler_return

\* The event loop runs every task that can go on, a request to the catalog
\* or to SQS ends (with a response or an exception), and the orchestrator
\* goes on when what it awaits is there.
FairStream ==
    /\ \A p \in ProducerIds :
          /\ WF_vars(\E ok, more \in BOOLEAN : fetch_cmr_range(p, ok, more))
          /\ WF_vars(ProducerPut(p))
    /\ \A c \in ConsumerIds :
          /\ WF_vars(ConsumerGet(c))
          /\ WF_vars(\E ok \in BOOLEAN : send_message_batch(c, ok))
    /\ WF_vars(GatherProducers)
    /\ WF_vars(PutSentinel)
    /\ WF_vars(GatherConsumers)
    /\ \A p \in ProducerIds : WF_vars(CancelProducer(p))
    /\ \A c \in ConsumerIds : WF_vars(CancelConsumer(c))
    /\ WF_vars(TaskGroupRaise)
    /\ WF_vars(stream_lambda_handler_return)

SpecStream == Init /\ [][NextStream]_vars /\ FairStream

\* A backfill with one producer whose sub-range holds more granules than
\* result_queue has room for.
LongRange == [p \in ProducerIds |-> IF p = 1 THEN MaxGranules + 1 ELSE 0]

NextChannel ==
    \/ process_collection(1, LongRange)
    \/ \E ok, more \in BOOLEAN : fetch_cmr_range(1, ok, more)
    \/ ProducerPut(1)
    \/ GatherProducers
    \/ PutSentinel
    \/ \E c \in ConsumerIds : ConsumerGet(c)
    \/ \E c \in ConsumerIds : \E ok \in BOOLEAN : send_message_batch(c, ok)
    \/ GatherConsumers
    \/ \E c \in ConsumerIds : CancelConsumer(c)
    \/ TaskGroupRaise
    \/ stream_lambda_handler_return

SpecChannel == Init /\ [][NextChannel]_vars

\* ------------------------------------------------ concurrent registration
\* init_collection step by step, for instances that run it at the same
\* time. Each instance works in one transaction: the partitions it creates
\* become visible to the others with its commit, and CREATE TABLE ...
\* PARTITION OF holds a lock on the partitioned table until then.

\* lambda_handler found c missing in the list of check_collections and
\* calls init_collection, which fetches the extent from the catalog.
RegStart(r, c) ==
    /\ reg[r].pc = "idle"
    /\ CmrHasMatch(c)
    /\ c \notin Registered
    /\ reg' = [reg EXCEPT ![r] = [NoReg EXCEPT !.pc = "check_gaps", !.c = c]]
    /\ UNCHANGED <<collections, gaps, pg_class, ddl>>
    /\ UNCHANGED notRegister

\* SELECT 1 FROM pg_class ... for the partition of table t: the creation is
\* skipped when a committed partition (or one of this transaction) exists.
CheckPartition(r, t) ==
    /\ reg[r].pc = "check_" \o t
    /\ reg' = [reg EXCEPT ![r].pc =
                  IF <<t, reg[r].c>> \in pg_class \cup reg[r].created
                  THEN (IF t = "gaps" THEN "check_reasons" ELSE "insert")
                  ELSE "create_" \o t]
    /\ UNCHANGED <<collections, gaps, pg_class, ddl>>
    /\ UNCHANGED notRegister

\* Variant of the failure of a statement: the exception leaves
\* init_collection.
RegFail_Raises(r) ==
    /\ reg' = [reg EXCEPT ![r].pc = "done", ![r].created = {},
                          ![r].result = "raised"]
    /\ ddl' = [t \in PartitionedTables |->
                 IF ddl[t] = r THEN NoWorker ELSE ddl[t]]

\* except Exception: conn.rollback(), and the failure is returned as a
\* message. The rollback drops what the transaction created and frees its
\* locks.
RegFail(r) ==
    /\ reg' = [reg EXCEPT ![r].pc = "done", ![r].created = {},
                          ![r].result = "failed"]
    /\ ddl' = [t \in PartitionedTables |->
                 IF ddl[t] = r THEN NoWorker ELSE ddl[t]]

\* CREATE TABLE ... PARTITION OF t and its exclusion constraint. The
\* statement waits while another transaction holds the lock on t; it fails
\* when the partition exists by then (relation already exists).
CreatePartition(r, t) ==
    /\ reg[r].pc = "create_" \o t
    /\ ddl[t] \in {NoWorker, r}
    /\ IF <<t, reg[r].c>> \in pg_class
       THEN RegFail(r)
       ELSE /\ reg' = [reg EXCEPT
                         ![r].created = @ \cup {<<t, reg[r].c>>},
                         ![r].pc = IF t = "gaps" THEN "check_reasons" ELSE "insert"]
            /\ ddl' = [ddl EXCEPT ![t] = r]
    /\ UNCHANGED <<collections, gaps, pg_class>>
    /\ UNCHANGED notRegister

\* INSERT INTO collections, the trigger's initial gap, and conn.commit().
\* The insert fails when the collection has a row (collection_id is the
\* key of collections); it waits while another transaction holds the lock
\* on gaps.
InsertAndCommit(r) ==
    /\ reg[r].pc = "insert"
    /\ ddl["gaps"] \in {NoWorker, r}
    /\ IF reg[r].c \in Registered
       THEN /\ RegFail(r)
            /\ UNCHANGED <<collections, gaps, pg_class>>
       ELSE /\ InsertCollection(reg[r].c)
            /\ pg_class' = pg_class \cup reg[r].created
            /\ ddl' = [t \in PartitionedTables |->
                         IF ddl[t] = r THEN NoWorker ELSE ddl[t]]
            /\ reg' = [reg EXCEPT ![r].pc = "done", ![r].created = {},
                                  ![r].result = "Initialized"]
    /\ UNCHANGED notRegister

\* init_collection has returned its message and the handler goes on.
RegReturn(r) ==
    /\ reg[r].pc = "done"
    /\ reg' = [reg EXCEPT ![r].pc = "idle"]
    /\ UNCHANGED <<collections, gaps, pg_class, ddl>>
    /\ UNCHANGED notRegister

NextRegister ==
    \/ \E r \in Registrars : \E c \in CollectionIds : RegStart(r, c)
    \/ \E r \in Registrars : \E t \in PartitionedTables : CheckPartition(r, t)
    \/ \E r \in Registrars : \E t \in PartitionedTables : CreatePartition(r, t)
    \/ \E r \in Registrars : InsertAndCommit(r)
    \/ \E r \in Registrars : RegReturn(r)

SpecRegister == Init /\ [][NextRegister]_vars

\* ------------------------------------------------------------------ events
\* Timestamp pairs of a record: every pair with begin <= end, and two with
\* begin > end (one that tsrange() still accepts once the end is rounded,
\* one that it rejects).
Stamps ==
    {p \in (0..MaxT) \X (0..MaxT) : p[1] <= p[2]}
        \cup {<<1, 0>>, <<MaxT, 0>>}

\* Single-message events of either queue on collection A, and deletion
\* batches of two records.
PairStamps == {<<0, 0>>, <<1, 2>>, <<MaxT, MaxT>>}

SeqEvents ==
    {<<Message(1, q, "A", p[1], p[2])>> : q \in QueueArns, p \in Stamps}
    \cup {<<Message(1, DELETION_QUEUE_ARN, "A", p[1], p[2]),
            Message(2, DELETION_QUEUE_ARN, "A", q[1], q[2])>> :
             p \in PairStamps, q \in PairStamps}

\* Timestamp pairs of the ingest batches: granules within one tick or two
\* adjacent ticks, and two long granules that reach over several gaps.
IngestStamps ==
    {p \in (0..MaxT) \X (0..MaxT) : p[1] <= p[2] /\ p[2] - p[1] <= 1}
        \cup {<<0, MaxT>>, <<1, MaxT - 1>>}

\* Ingest-only events on collection A of up to MaxBatch messages.
IngestEvents ==
    UNION {{[i \in 1..n |-> Message(i, INGEST_QUEUE_ARN, "A", f[i][1], f[i][2])] :
               f \in [1..n -> IngestStamps]} : n \in 1..MaxBatch}

\* Events of the concurrent specification: single batches of each kind on
\* one collection, a batch over two collections, a batch that mixes the two
\* queues, a group with one record tsrange() rejects, and a batch with a
\* group of a collection that is not registered.
ConcEvents ==
    {<<Message(1, INGEST_QUEUE_ARN, "A", 1, 1)>>,
     <<Message(1, DELETION_QUEUE_ARN, "A", 0, 1)>>,
     <<Message(1, INGEST_QUEUE_ARN, "A", 0, 0), Message(2, INGEST_QUEUE_ARN, "B", 2, 2)>>,
     <<Message(1, INGEST_QUEUE_ARN, "A", 2, 2), Message(2, DELETION_QUEUE_ARN, "B", 2, 3)>>,
     <<Message(1, DELETION_QUEUE_ARN, "A", 2, 2), Message(2, DELETION_QUEUE_ARN, "A", MaxT, 0)>>,
     <<Message(1, INGEST_QUEUE_ARN, Unknown, 1, 1), Message(2, INGEST_QUEUE_ARN, "B", 3, MaxT)>>}

\* -------------------------------------------------------- specifications
\* Two workers, two collections, the events of ConcEvents.
Next ==
    \/ \E c \in Collections : init_collection(c)
    \/ \E w \in Workers : \E ev \in ConcEvents : lambda_handler(w, ev)
    \/ \E w \in Workers : StartGroup(w)
    \/ \E w \in Workers : AcquireLock(w)
    \/ \E w \in Workers : Execute(w)
    \/ \E w \in Workers : Commit(w, FALSE)
    \/ \E w \in Workers : TxnError(w)
    \/ \E w \in Workers : Return(w)

Spec == Init /\ [][Next]_vars

\* Two workers, each with one ingest batch for A and one for B, when the
\* ids of A and B have different lock keys and when they share one.
KeyEvents ==
    {<<Message(1, INGEST_QUEUE_ARN, "A", 1, 1)>>,
     <<Message(1, INGEST_QUEUE_ARN, "B", 2, 2)>>}

NextKeys ==
    \/ \E c \in Collections : init_collection(c)
    \/ \E w \in Workers : \E ev \in KeyEvents : lambda_handler(w, ev)
    \/ \E w \in Workers : StartGroup(w)
    \/ \E w \in Workers : AcquireLock(w)
    \/ \E w \in Workers : Execute(w)
    \/ \E w \in Workers : Commit(w, FALSE)
    \/ \E w \in Workers : TxnError(w)
    \/ \E w \in Workers : Return(w)

SpecKeys == (Init \/ InitSharedKey) /\ [][NextKeys]_vars

\* One worker, one collection, the events of SeqEvents.
NextSeq ==
    \/ init_collection("A")
    \/ \E ev \in SeqEvents : lambda_handler("w1", ev)
    \/ StartGroup("w1")
    \/ AcquireLock("w1")
    \/ Execute("w1")
    \/ Commit("w1", TRUE)
    \/ TxnError("w1")
    \/ Return("w1")

SpecSeq == Init /\ [][NextSeq]_vars

\* One worker, one collection, ingest batches of up to MaxBatch messages.
NextIngest ==
    \/ init_collection("A")
    \/ pc["w1"] = "idle" /\ \E ev \in IngestEvents : lambda_handler("w1", ev)
    \/ StartGroup("w1")
    \/ AcquireLock("w1")
    \/ Execute("w1")
    \/ Commit("w1", FALSE)
    \/ TxnError("w1")
    \/ Return("w1")

SpecIngest == Init /\ [][NextIngest]_vars

\* One worker and the reader, two collections, the events of ConcEvents.
NextRead ==
    \/ \E c \in Collections : init_collection(c)
    \/ \E ev \in ConcEvents : lambda_handler("w1", ev)
    \/ StartGroup("w1")
    \/ AcquireLock("w1")
    \/ Execute("w1")
    \/ Commit("w1", FALSE)
    \/ TxnError("w1")
    \/ Return("w1")
    \/ \E c \in Collections, now \in Nows :
           fetch_time_gaps(c, 0, FALSE, NoDate, NoDate, now)

SpecRead == Init /\ [][NextRead]_vars

\* Ingest events of the reader with reasons, on collection A: a granule
\* inside the extent, which splits the initial gap, and one that reaches
\* the end of the extent, after which no gap ends in year 9999.
QueryEvents ==
    {<<Message(1, INGEST_QUEUE_ARN, "A", 1, 1)>>,
     <<Message(1, INGEST_QUEUE_ARN, "A", MaxT - 1, MaxT)>>}

\* Ranges of the reasons inserted: inside the first second, across the
\* granule of the first event, up to the end of the extent, and the whole
\* extent.
ReasonRanges == {<<0, 1>>, <<1, MaxT - 1>>, <<2, MaxT>>, <<0, MaxT>>}

\* Tolerances (seconds) and time windows of the reads.
Tolerances == 0..1
Windows == {<<NoDate, NoDate>>, <<1, NoDate>>, <<NoDate, MaxT - 1>>}

\* One worker, reasons and the reader on collection A.
NextQuery ==
    \/ init_collection("A")
    \/ \E ev \in QueryEvents : lambda_handler("w1", ev)
    \/ StartGroup("w1")
    \/ AcquireLock("w1")
    \/ Execute("w1")
    \/ Commit("w1", FALSE)
    \/ Return("w1")
    \/ \E r \in ReasonRanges, text \in ReasonTexts :
           insert_reason("A", r[1], r[2], text)
    \/ \E granulegap \in Tolerances, knownCheck \in BOOLEAN,
          window \in Windows, now \in Nows :
           fetch_time_gaps("A", granulegap, knownCheck, window[1], window[2],
                           now)

SpecQuery == Init /\ [][NextQuery]_vars

\* Ranges of the PUT requests of knownGap: the extent, its first second,
\* the part after the first second, and a range tsrange() rejects.
PutRanges == {<<0, MaxT>>, <<0, TicksPerSec>>, <<TicksPerSec, MaxT>>, <<1, 0>>}

\* One worker with ingest events and the knownGap handler on collection A.
\* No gap is ever inserted again with the range of a gap that is gone, so
\* a reason written for a range belongs to one row of gaps.
NextKnownGap ==
    \/ init_collection("A")
    \/ \E ev \in QueryEvents : lambda_handler("w1", ev)
    \/ StartGroup("w1")
    \/ AcquireLock("w1")
    \/ Execute("w1")
    \/ Commit("w1", FALSE)
    \/ Return("w1")
    \/ \E r \in PutRanges, operation \in Operations :
           update_reason("A", r[1], r[2],
                         IF operation = "delete" THEN NULL ELSE "outage",
                         operation)

SpecKnownGap == Init /\ [][NextKnownGap]_vars

\* Two workers on one collection, with cancellation. Worker w1, when it
\* holds the lock, goes on to its statement and its commit unless it fails
\* or is cancelled, and the lock manager serves the waiting request of w2
\* once the lock is free often enough (its wait queue). The two workers
\* run the same code, so what is shown for w2 waiting on w1 holds with the
\* roles exchanged.
LiveEvents ==
    {<<Message(1, INGEST_QUEUE_ARN, "A", 1, 1)>>,
     <<Message(1, DELETION_QUEUE_ARN, "A", 0, 1)>>}

NextLive ==
    \/ init_collection("A")
    \/ \E w \in Workers : \E ev \in LiveEvents : lambda_handler(w, ev)
    \/ \E w \in Workers : StartGroup(w)
    \/ \E w \in Workers : AcquireLock(w)
    \/ \E w \in Workers : Execute(w)
    \/ \E w \in Workers : Commit(w, FALSE)
    \/ \E w \in Workers : TxnError(w)
    \/ \E w \in Workers : Cancel(w)
    \/ \E w \in Workers : Return(w)

FairLive ==
    /\ WF_vars(Execute("w1"))
    /\ WF_vars(Commit("w1", FALSE))
    /\ SF_vars(AcquireLock("w2"))

SpecLive == Init /\ [][NextLive]_vars /\ FairLive

\* The registration handler alone, on an empty database: no ingest or
\* deletion event is applied.
NextConfig ==
    \/ \E r \in ConfigRequests : gapConfig_lambda_handler(r)
    \/ \E dbok \in BOOLEAN : ConfigCollection(dbok)
    \/ \E ok \in BOOLEAN : init_migration_stream(ok)
    \/ \E updated \in {"none", "ingest", "both"} : ConfigFinish(updated)
    \/ ConfigReturn

SpecConfig == Init /\ [][NextConfig]_vars


\* ------------------------------------------------------------------ claims
\* Ticks of the staged record r, with its end taken to the next whole second.
RecordTicks(r) == {t \in Ticks : r.start_ts <= t /\ t < NextSecond(r.end_ts)}

RecordsTicks(R) == UNION {RecordTicks(R[i]) : i \in DOMAIN R}

\* C1: whatever ingest and deletion batches the workers have applied, in
\* whatever interleaving, no two gaps of a collection overlap.
C1_NoOverlap ==
    \A c \in CollectionIds : \A g1 \in gaps[c] : \A g2 \in gaps[c] :
        g1 # g2 => (g1[2] <= g2[1] \/ g2[2] <= g1[1])

\* C1 witness: two workers have committed, one a deletion batch and one an
\* ingest batch, on the same collection, which holds several gaps.
C1_Witness ==
    \E c \in Collections : \E w1 \in Workers : \E w2 \in Workers \ {w1} :
        /\ outcome[w1][c] = "committed" /\ delete[w1]
        /\ outcome[w2][c] = "committed" /\ ~delete[w2]
        /\ Cardinality(gaps[c]) >= 2

\* C2: on a collection that has only received ingest batches, the gaps are
\* the maximal runs of the extent that no ingested granule covers, whatever
\* the order of the events and their split into batches.
C2_IngestIsExtentMinusUnion ==
    \A c \in Registered :
        gaps[c] = Runs(TicksOf({collections[c]}) \ covered[c])

\* C2 witness: after earlier batches left two gaps or more, a batch of two
\* granules has been executed and changes the gaps again.
C2_Witness ==
    /\ pc["w1"] = "executed"
    /\ Len(event["w1"]) = 2
    /\ covered["A"] # {}
    /\ Cardinality(gaps["A"]) >= 2
    /\ pending["w1"].rows # gaps["A"]

\* C3: once a deletion batch is committed, the gaps are the merged union of
\* the gaps before it and the staged ranges (ends rounded up to the next
\* whole second); gaps that no range overlaps or touches are still there;
\* and the overlap warning was logged exactly when a range overlapped a gap.
C3_DeleteIsMergedUnion ==
    \A c \in Registered : hist[c].kind = "delete" =>
        /\ gaps[c] = Runs(TicksOf(hist[c].pre) \cup RecordsTicks(hist[c].recs))
        /\ \A g \in hist[c].pre :
              (\A i \in DOMAIN hist[c].recs :
                  \/ g[2] < hist[c].recs[i].start_ts
                  \/ NextSecond(hist[c].recs[i].end_ts) < g[1])
              => g \in gaps[c]
        /\ \A w \in Workers : (pc[w] = "loop" /\ outcome[w][c] = "committed") =>
              (c \in warned[w] <=> TicksOf(hist[c].pre) \cap RecordsTicks(hist[c].recs) # {})

\* C3 witness: a committed deletion batch of two records that overlapped one
\* gap (warning logged) and merged gaps, leaving fewer than before.
C3_Witness ==
    /\ pc["w1"] = "loop"
    /\ outcome["w1"]["A"] = "committed"
    /\ hist["A"].kind = "delete"
    /\ Len(hist["A"].recs) = 2
    /\ "A" \in warned["w1"]
    /\ Cardinality(hist["A"].pre) >= 2
    /\ Cardinality(gaps["A"]) < Cardinality(hist["A"].pre)


\* The records of the group a worker has in hand, and its message ids.
CurGroup(w) == GroupOf(event[w], cur[w])
IdsOf(s) == {s[i] : i \in DOMAIN s}

\* C4: a group is processed by the delete algorithm exactly when its
\* messages come from the deletion queue, each message by its own
\* eventSourceARN, also in a batch that mixes the two queues.
C4_AlgorithmByOwnQueue ==
    \A w \in Workers : pc[w] \in {"locked", "executed"} =>
        \A i \in DOMAIN CurGroup(w) :
            (CurGroup(w)[i].eventSourceARN = DELETION_QUEUE_ARN) <=> delete[w]

\* C5: two workers are never both between the lock and the end of their
\* transaction on one collection, and the rows a transaction is about to
\* commit are its statement applied to the rows committed right now, so the
\* commits amount to the batches run one after the other.
C5_LockSerializes ==
    /\ \A w1 \in Workers : \A w2 \in Workers \ {w1} :
          ~(/\ pc[w1] \in {"locked", "executed"}
            /\ pc[w2] \in {"locked", "executed"}
            /\ cur[w1] = cur[w2])
    /\ \A w \in Workers : pc[w] = "executed" => pending[w].rows = Statement(w).rows

\* C5 witness: one worker has executed its statement on a collection whose
\* gaps an earlier batch changed, while the other worker, with a batch of
\* the other kind, waits for the same lock.
C5_Witness ==
    \E w1 \in Workers : \E w2 \in Workers \ {w1} :
        /\ pc[w1] = "executed" /\ pc[w2] = "wait"
        /\ cur[w1] = cur[w2]
        /\ delete[w1] # delete[w2]
        /\ gaps[cur[w1]] # collection_insert_trigger(collections[cur[w1]])
        /\ pending[w1].rows # gaps[cur[w1]]

\* A staged record whose range tsrange() rejects.
Malformed(m) == m.beginningDateTime > NextSecond(m.endingDateTime)

\* C6: a step in which a transaction fails leaves every gap as it was, ends
\* the transaction without its lock, and puts every message id of the group
\* in failures; and a step that commits a group commits the statement over
\* all of its records, none of them malformed.
C6_FailureRollsBack ==
    [][\A w \in Workers :
          /\ (pc[w] \in {"wait", "locked", "executed"} /\ outcome'[w][cur[w]] = "failed") =>
                /\ gaps' = gaps
                /\ pending'[w] = NoTxn
                /\ \A k \in DOMAIN advisory : advisory'[k] # w
                /\ IdsOf(MessageIds(event[w], cur[w])) \subseteq IdsOf(failures'[w])
          /\ (pc[w] = "executed" /\ outcome'[w][cur[w]] = "committed") =>
                /\ \A i \in DOMAIN CurGroup(w) : ~Malformed(CurGroup(w)[i])
                /\ gaps'[cur[w]] = Statement(w).rows
                /\ \A c \in CollectionIds \ {cur[w]} : gaps'[c] = gaps[c]
      ]_vars

\* C6 witness: a deletion group of a registered collection with one good and
\* one malformed record has failed, both message ids are in failures, and
\* the collection still has its initial gap.
C6_Witness ==
    \E w \in Workers : \E c \in Registered :
        /\ pc[w] = "loop"
        /\ outcome[w][c] = "failed"
        /\ \E i \in DOMAIN GroupOf(event[w], c) : Malformed(GroupOf(event[w], c)[i])
        /\ \E i \in DOMAIN GroupOf(event[w], c) : ~Malformed(GroupOf(event[w], c)[i])
        /\ IdsOf(failures[w]) = {1, 2}
        /\ gaps[c] = collection_insert_trigger(collections[c])

\* C7: when the loop is over, every group of the event has been processed,
\* failures holds every message id of each failed group and no message id
\* of a committed group.
C7_FailuresPerGroup ==
    \A w \in Workers : (pc[w] = "loop" /\ queue[w] = <<>>) =>
        \A c \in IdsOf(GroupOrder(event[w], {})) :
            /\ outcome[w][c] \in {"committed", "failed"}
            /\ outcome[w][c] = "failed" =>
                  IdsOf(MessageIds(event[w], c)) \subseteq IdsOf(batchItemFailures(w))
            /\ outcome[w][c] = "committed" =>
                  IdsOf(MessageIds(event[w], c)) \cap IdsOf(batchItemFailures(w)) = {}

\* C7 witness: the loop is over for a batch of two groups whose first group
\* failed in its transaction and whose second group committed.
C7_Witness ==
    \E w \in Workers :
        /\ pc[w] = "loop" /\ queue[w] = <<>>
        /\ Len(GroupOrder(event[w], {})) = 2
        /\ GroupOrder(event[w], {})[1] \in Registered
        /\ outcome[w][GroupOrder(event[w], {})[1]] = "failed"
        /\ outcome[w][GroupOrder(event[w], {})[2]] = "committed"
        /\ batchItemFailures(w) = MessageIds(event[w], GroupOrder(event[w], {})[1])

\* The step in which worker w commits an ingest (deletion) batch.
CommitsIngest(w) == pc[w] = "executed" /\ outcome'[w][cur[w]] = "committed" /\ ~delete[w]
CommitsDelete(w) == pc[w] = "executed" /\ outcome'[w][cur[w]] = "committed" /\ delete[w]

\* C8: committing an ingest batch whose records are those of the last batch
\* committed on the collection, itself an ingest batch, leaves the gaps as
\* they are.
C8_IngestTwice ==
    [][\A w \in Workers :
          (/\ CommitsIngest(w)
           /\ hist[cur[w]].kind = "ingest"
           /\ hist[cur[w]].recs = Records(event[w], cur[w]))
          => gaps'[cur[w]] = gaps[cur[w]]
      ]_vars

\* C8 witness: an ingest batch that split the initial gap has been executed
\* a second time.
C8_Witness ==
    /\ pc["w1"] = "executed" /\ ~delete["w1"]
    /\ hist["A"].kind = "ingest"
    /\ hist["A"].recs = Records(event["w1"], "A")
    /\ Cardinality(gaps["A"]) >= 2

\* C9 as stated: committing the ingest of the range that the last committed
\* batch, a deletion of that one range, added gives back the gaps that
\* existed before the deletion.
C9_DeleteThenIngest_Original ==
    [][\A w \in Workers :
          (/\ CommitsIngest(w)
           /\ hist[cur[w]].kind = "delete"
           /\ Len(hist[cur[w]].recs) = 1
           /\ hist[cur[w]].recs = Records(event[w], cur[w]))
          => gaps'[cur[w]] = hist[cur[w]].pre
      ]_vars

\* C9 amended: the same, for a range that overlapped no gap when it was
\* deleted.
C9_DeleteThenIngest ==
    [][\A w \in Workers :
          (/\ CommitsIngest(w)
           /\ hist[cur[w]].kind = "delete"
           /\ Len(hist[cur[w]].recs) = 1
           /\ hist[cur[w]].recs = Records(event[w], cur[w])
           /\ TicksOf(hist[cur[w]].pre) \cap RecordsTicks(hist[cur[w]].recs) = {})
          => gaps'[cur[w]] = hist[cur[w]].pre
      ]_vars

\* C9 witness: the ingest of a range has been executed right after the
\* deletion of that range, which overlapped no gap and was merged with a
\* gap it touched; the rows to commit are those before the deletion.
C9_Witness ==
    /\ pc["w1"] = "executed" /\ ~delete["w1"]
    /\ hist["A"].kind = "delete"
    /\ Len(hist["A"].recs) = 1
    /\ hist["A"].recs = Records(event["w1"], "A")
    /\ TicksOf(hist["A"].pre) \cap RecordsTicks(hist["A"].recs) = {}
    /\ Cardinality(gaps["A"]) < Cardinality(hist["A"].pre) + 1
    /\ hist["A"].pre # {}
    /\ pending["w1"].rows = hist["A"].pre
    /\ pending["w1"].rows # gaps["A"]

\* C10: every gap of a registered collection lies within the collection's
\* extent [temporal_extent_start, temporal_extent_end].
C10_Containment ==
    \A c \in Registered : \A g \in gaps[c] :
        collections[c][1] <= g[1] /\ g[2] <= collections[c][2]

\* The collections of the request that were not registered when it arrived.
NewInRequest == {cfg.asked[i] : i \in DOMAIN cfg.asked} \ cfg.current

\* C11: when the registration handler answers 200, every collection of the
\* request that was not registered before is in the collections table with
\* the catalog extent, and (no ingest applied) its only gap is that extent.
C11_RegisteredOn200 ==
    (cfg.pc = "done" /\ cfg.status = "200") =>
        \A c \in NewInRequest :
            /\ c \in Registered
            /\ collections[c] = get_cmr_time(c)
            /\ gaps[c] = {<<collections[c][1], collections[c][2]>>}

\* C12: for a collection without a catalog match nothing is created and no
\* backfill is ever started.
C12_NoMatchFailsFast ==
    \A c \in CollectionIds : ~CmrHasMatch(c) =>
        /\ c \notin Registered
        /\ gaps[c] = {}
        /\ ~(cfg.pc = "backfill" /\ cfg.cur = c)
        /\ backfilled[c] = "none"

\* C13: the loop turn for a collection that existed when the request read
\* the collections table changes no row; without the force flag it starts no
\* backfill, with it the backfill is started; and that backfill changes no
\* row either.
C13_ExistingCollection ==
    [][/\ (cfg.pc = "loop" /\ cfg.req # <<>> /\ Head(cfg.req) \in cfg.current) =>
             /\ collections' = collections /\ gaps' = gaps
             /\ backfilled' = backfilled
             /\ cfg.force => (cfg'.pc = "backfill" /\ cfg'.cur = Head(cfg.req))
             /\ ~cfg.force => (cfg'.pc = "loop" /\ cfg'.req = Tail(cfg.req))
       /\ (cfg.pc = "backfill" /\ cfg.cur \in cfg.current) =>
             (collections' = collections /\ gaps' = gaps)
      ]_vars

\* C13 witness: a request without the force flag has skipped a registered
\* collection that an earlier request backfilled, and its loop is over.
C13_Witness ==
    /\ cfg.pc = "loop" /\ cfg.req = <<>> /\ ~cfg.force
    /\ cfg.asked = <<"A">>
    /\ "A" \in cfg.current
    /\ backfilled["A"] = "ok"

\* C14: when the backfill of a collection registered by this request fails,
\* the answer is 500 and the row and the initial gap stay; and a later
\* request with the force flag for a collection whose backfill failed goes
\* to the backfill without changing a row.
C14_BackfillFailure ==
    [][/\ (/\ cfg.pc = "backfill" /\ cfg.cur \notin cfg.current
           /\ cfg.cur \in Registered
           /\ backfilled'[cfg.cur] = "failed") =>
             /\ cfg'.pc = "done" /\ cfg'.status = "500"
             /\ collections' = collections /\ gaps' = gaps
             /\ gaps'[cfg.cur] = collection_insert_trigger(collections'[cfg.cur])
       /\ (/\ cfg.pc = "loop" /\ cfg.req # <<>> /\ cfg.force
           /\ Head(cfg.req) \in cfg.current
           /\ backfilled[Head(cfg.req)] = "failed") =>
             /\ cfg'.pc = "backfill" /\ cfg'.cur = Head(cfg.req)
             /\ collections' = collections /\ gaps' = gaps
      ]_vars

\* C14 witness: a request with the force flag is in the backfill of a
\* registered collection whose first backfill failed; the collection still
\* has its initial gap.
C14_Witness ==
    /\ cfg.pc = "backfill" /\ cfg.force
    /\ cfg.cur \in cfg.current
    /\ backfilled[cfg.cur] = "failed"
    /\ gaps[cfg.cur] = collection_insert_trigger(collections[cfg.cur])

\* C15: the loop turn of a worker for a group whose collection is not in the
\* collections table opens no transaction (no staging, no lock request, no statement),
\* changes no row and no lock, and puts every message id of the group in
\* failures.
C15_UnregisteredGroup ==
    [][\A w \in Workers :
          (/\ pc[w] = "loop" /\ queue[w] # <<>>
           /\ Head(queue[w]) \notin Registered
           /\ (pc'[w] # pc[w] \/ queue'[w] # queue[w])) =>
              /\ collections' = collections /\ gaps' = gaps
              /\ advisory' = advisory
              /\ pending'[w] = NoTxn /\ cur'[w] = NoCollection
              /\ pc'[w] = "loop"
              /\ queue'[w] = Tail(queue[w])
              /\ outcome'[w][Head(queue[w])] = "failed"
              /\ IdsOf(MessageIds(event[w], Head(queue[w])))
                    \subseteq IdsOf(failures'[w])
      ]_vars

\* C15 witness: the loop is over for a batch whose first group was of an
\* unregistered collection and failed, with its message id in failures,
\* and whose second group committed.
C15_Witness ==
    \E w \in Workers :
        /\ pc[w] = "loop" /\ queue[w] = <<>>
        /\ outcome[w][Unknown] = "failed"
        /\ outcome[w]["B"] = "committed"
        /\ IdsOf(batchItemFailures(w)) = IdsOf(MessageIds(event[w], Unknown))
        /\ gaps[Unknown] = {}

\* C16: the gaps of a registered collection change only in the commit of a
\* group of that collection, to the rows of that group's statement on that
\* collection's own gaps; its collections row never changes.
C16_Isolation ==
    [][\A c \in Registered :
          /\ collections'[c] = collections[c]
          /\ (gaps'[c] # gaps[c]) =>
                \E w \in Workers :
                    /\ pc[w] = "executed" /\ cur[w] = c
                    /\ outcome'[w][c] = "committed"
                    /\ gaps'[c] = Statement(w).rows
      ]_vars

\* C16 witness: a deletion batch and an ingest batch have been committed on
\* A and changed its gaps, while B still has its initial gap.
C16_Witness ==
    /\ {"A", "B"} \subseteq Registered
    /\ \E w \in Workers : outcome[w]["A"] = "committed" /\ delete[w]
    /\ \E w \in Workers : outcome[w]["A"] = "committed" /\ ~delete[w]
    /\ gaps["A"] # collection_insert_trigger(collections["A"])
    /\ gaps["B"] = collection_insert_trigger(collections["B"])

\* The rows of a read, as a set.
RowsOf(q) == {q[i] : i \in DOMAIN q}

\* The (start_ts, end_ts) of the rows of a read, as a set.
RangesOf(q) == {<<q[i][1], q[i][2]>> : i \in DOMAIN q}

\* C17: a read returns the committed gaps of the collection, in start
\* order: when a worker has an open transaction on the collection the read
\* returns the gaps as they were before the batch, never the rows the
\* transaction has written and not committed, and the gaps only change in a
\* commit, to the whole result of the batch.
C17_ReaderSnapshot ==
    [][/\ (rd' # rd /\ rd'.granulegap = 0 /\ ~rd'.knownCheck
             /\ rd'.startDate = NoDate /\ rd'.endDate = NoDate
             /\ reasons[rd'.collection] = {}) =>
             /\ RangesOf(rd'.fetched) = gaps[rd'.collection]
             /\ \A i \in DOMAIN rd'.fetched : \A j \in DOMAIN rd'.fetched :
                   i < j => rd'.fetched[i][1] < rd'.fetched[j][1]
             /\ gaps' = gaps
       /\ \A c \in Registered : (gaps'[c] # gaps[c]) =>
             \E w \in Workers :
                 /\ pc[w] = "executed" /\ cur[w] = c
                 /\ gaps'[c] = pending[w].rows
                 /\ pending[w].rows = Statement(w).rows
      ]_vars

\* C17 witness: the reader holds the two gaps of a collection, read while
\* a worker's transaction on that collection has executed its statement
\* and is about to commit other rows.
C17_Witness ==
    /\ rd.collection \in Registered
    /\ Len(rd.fetched) >= 2
    /\ pc["w1"] = "executed" /\ cur["w1"] = rd.collection
    /\ RangesOf(rd.fetched) = gaps[rd.collection]
    /\ pending["w1"].rows # gaps[rd.collection]

\* Worker w holds the advisory lock of the collection of its transaction.
HoldsLock(w) == pc[w] \in {"locked", "executed"}

\* C18: a step in which a worker that holds a lock fails or is cancelled
\* leaves every gap as it was, ends its transaction and frees its lock; and
\* worker w2, when it waits for a lock, gets it, unless it fails or is
\* cancelled itself.
C18_AbortReleasesLock ==
    /\ [][\A w \in Workers :
             (HoldsLock(w) /\ pc'[w] \in {"loop", "idle"}
                 /\ outcome'[w][cur[w]] # "committed") =>
                   /\ gaps' = gaps
                   /\ pending'[w] = NoTxn
                   /\ \A k \in DOMAIN advisory : advisory'[k] # w
         ]_vars
    /\ (pc["w2"] = "wait") ~> (pc["w2"] = "locked" \/ pc["w2"] \in {"loop", "idle"})

\* C18 witness: a worker has got the lock of a collection after the other
\* worker, which held it with its statement executed, was cancelled (it is
\* idle again and the gaps are still the initial gap).
C18_Witness ==
    /\ pc["w2"] = "locked" /\ cur["w2"] = "A"
    /\ pc["w1"] = "idle" /\ cancelled["w1"]
    /\ advisory[hashtext("A")] = "w2"
    /\ gaps["A"] = collection_insert_trigger(collections["A"])

\* C19 as stated: a worker that holds the advisory lock for one collection
\* never blocks a worker that processes a different collection: whenever a
\* worker waits for its lock while another worker's transaction is on a
\* different collection, the lock it waits for is free.
C19_NoCrossBlocking_Original ==
    \A w \in Workers : \A v \in Workers \ {w} :
        (pc[w] = "wait" /\ HoldsLock(v) /\ cur[v] # cur[w]) =>
            LockFree(hashtext(cur[w]))

\* C19, amended: a worker that holds the advisory lock for one collection
\* never blocks a worker that processes a different collection, unless the
\* ids of the two collections have the same hashtext value.
C19_NoCrossBlocking ==
    \A w \in Workers : \A v \in Workers \ {w} :
        (/\ pc[w] = "wait" /\ HoldsLock(v) /\ cur[v] # cur[w]
         /\ hashtext(cur[v]) # hashtext(cur[w])) =>
            LockFree(hashtext(cur[w]))

\* w1 holds the lock of A, and w2, which waited meanwhile, holds the lock
\* of B, under a different key.
C19_Witness ==
    /\ HoldsLock("w1") /\ cur["w1"] = "A"
    /\ pc["w2"] = "locked" /\ cur["w2"] = "B"
    /\ hashtext("A") # hashtext("B")
    /\ advisory[hashtext("A")] = "w1" /\ advisory[hashtext("B")] = "w2"

\* The messages the producers have put on result_queue so far, and the
\* messages passed to send_message_batch so far.
MessagesPut ==
    {m \in ProducerIds \X (1..MaxGranules) : m[2] <= producers[m[1]].put}
EntriesOf(call) == {call.Entries[j] : j \in 1..Len(call.Entries)}
MessagesSentBy(c) ==
    UNION {EntriesOf(consumers[c].calls[k]) : k \in 1..Len(consumers[c].calls)}
MessagesSent == UNION {MessagesSentBy(c) : c \in ConsumerIds}
SentinelsQueued ==
    Cardinality({i \in 1..Len(result_queue) : result_queue[i] = None})
RECURSIVE SentinelsGot(_)
SentinelsGot(c) == IF c = 0 THEN 0 ELSE consumers[c].got + SentinelsGot(c - 1)
AllProducersDone ==
    orch.np > 0 /\ \A p \in ProducerTasks : producers[p].pc = "done"

\* C20: when every producer has finished without error, the orchestrator
\* puts exactly n_consumers sentinels, all of them behind the last granule
\* message; every consumer gets exactly one sentinel, sends the batch it
\* holds and leaves its loop; and process_collection returns in the end.
C20_SentinelTermination ==
    /\ [](/\ orch.signalled <= orch.nc
          /\ SentinelsQueued + SentinelsGot(orch.nc) = orch.signalled
          /\ orch.signalled > 0 => AllProducersDone
          /\ \A i \in 1..Len(result_queue) : \A j \in 1..Len(result_queue) :
                (i < j /\ result_queue[i] = None) => result_queue[j] = None
          /\ \A c \in ConsumerTasks :
                /\ consumers[c].got <= 1
                /\ consumers[c].pc \in {"flush", "done"} <=> consumers[c].got = 1
                /\ consumers[c].pc = "done" => consumers[c].batch = <<>>
          /\ orch.pc = "returned" =>
                /\ orch.signalled = orch.nc
                /\ result_queue = <<>>
                /\ \A c \in ConsumerTasks :
                      consumers[c].pc = "done" /\ consumers[c].got = 1
                /\ MessagesSent = MessagesPut)
    /\ AllProducersDone ~> (orch.pc = "returned")

\* A backfill with two producers and three consumers has returned: every
\* consumer got its sentinel, one of them held a single message then and
\* sent it, another held nothing and made no call.
C20_Witness ==
    /\ orch.pc = "returned" /\ orch.np = 2 /\ orch.nc = 3
    /\ orch.signalled = 3
    /\ \A c \in ConsumerTasks : consumers[c].got = 1
    /\ \E c \in ConsumerTasks :
          /\ consumers[c].calls # <<>>
          /\ Len(consumers[c].calls[Len(consumers[c].calls)].Entries) < BatchFull
    /\ \E c \in ConsumerTasks : consumers[c].calls = <<>>
    /\ Cardinality(MessagesSent) = MaxGranules

\* A task of the backfill has raised.
TaskRaised == \E p \in ProducerIds : producers[p].pc = "failed"
\* A task of the backfill is running or suspended at an await.
Unfinished ==
    \/ \E p \in ProducerIds : producers[p].pc \in {"fetch", "put"}
    \/ \E c \in ConsumerIds : consumers[c].pc \in {"get", "send", "flush"}

\* C21: when a task of the backfill raises, every other task is cancelled
\* (none goes on with its work, none is left suspended on the queue once
\* process_collection has raised), process_collection raises and does not
\* return, and the handler answers 500 in the end.
C21_FailureCancelsAll ==
    /\ [](/\ TaskRaised => orch.pc \in {"aborting", "raised"}
          /\ orch.pc = "raised" =>
                /\ TaskRaised
                /\ ~Unfinished
                /\ \A q \in ProducerTasks :
                      producers[q].pc \in {"failed", "cancelled", "done"}
                /\ \A c \in ConsumerTasks :
                      consumers[c].pc \in {"cancelled", "done"}
          /\ orch.statusCode = 500 => orch.pc = "raised"
          /\ TaskRaised => orch.statusCode # 200)
    /\ [][TaskRaised => /\ result_queue' = result_queue
                        /\ \A c \in ConsumerIds :
                              consumers'[c].calls = consumers[c].calls
                        /\ \A q \in ProducerIds :
                              producers'[q].put = producers[q].put]_vars
    /\ TaskRaised ~> (orch.statusCode = 500)

\* The first of two producers exhausted its retries while the second was
\* putting a message and a consumer was waiting on the queue; both were
\* cancelled and the handler answered 500.
C21_Witness ==
    /\ orch.statusCode = 500 /\ orch.np = 2
    /\ producers[1].pc = "failed" /\ producers[1].retry = max_retries
    /\ producers[2].pc = "cancelled" /\ producers[2].left > 0
    /\ \E c \in ConsumerTasks :
          consumers[c].pc = "cancelled" /\ consumers[c].batch = <<>>
    /\ \E c \in ConsumerTasks :
          consumers[c].pc = "cancelled" /\ consumers[c].batch # <<>>

\* A send_message_batch call of a consumer has raised: fewer messages are
\* counted in send_stats than were passed to the calls.
SendFailed == orch.send_stats < Cardinality(MessagesSent)

\* C22: a failed send_message_batch call of a consumer makes the backfill
\* fail: once a call has failed, process_collection does not return
\* normally and the handler does not answer 200.
C22_PublishFailureFails ==
    SendFailed => /\ orch.statusCode # 200
                  /\ orch.pc \notin {"returned"}

\* The registrars that ran init_collection for c to its end.
Finished(c) == {r \in Registrars : reg[r].c = c /\ reg[r].pc \in {"done", "idle"}}
BothPartitions(c) == {<<"gaps", c>>, <<"reasons", c>>}

C24_FilterPolicyMerged ==
    [][/\ (cfg.status # "200" /\ cfg'.status = "200") =>
            \A sub \in Subscriptions :
                /\ policy[sub] \subseteq policy'[sub]
                /\ new_collection_ids(cfg.asked) \subseteq policy'[sub]
       /\ \A sub \in Subscriptions : policy[sub] \subseteq policy'[sub]
       /\ policy' # policy => cfg'.status \in {"200", "500"}]_vars

\* A request for B ended with 200 when both lists held the id of A from an
\* earlier request: both hold the two ids now.
C24_Witness ==
    /\ cfg.pc = "done" /\ cfg.status = "200" /\ cfg.asked = <<"B">>
    /\ \A sub \in Subscriptions :
          policy[sub] = {<<"A", "raw_version">>, <<"B", "raw_version">>}

\* A read of every gap of the collection: tolerance 0, no time window.
ReadsAll(q) ==
    q.granulegap = 0 /\ q.startDate = NoDate /\ q.endDate = NoDate

\* C25: a read with the known filter off, tolerance 0 and no window gives,
\* for a gap that a reason overlaps, the intersection of the two with that
\* reason and the rest of the gap in rows with null reason: the rows of
\* the read cover every gap of the collection, and a row with null reason
\* overlaps no reason.
C25_PartlyCoveredGap ==
    [][(rd' # rd /\ ReadsAll(rd') /\ ~rd'.knownCheck) =>
          LET c == rd'.collection
              rows == RowsOf(rd'.fetched)
          IN  /\ \A g \in gaps[c] : \A r \in reasons[c] :
                    Overlaps(g, r) =>
                        <<Max(g[1], r[1]), Min(g[2], r[2]), r[3]>> \in rows
              /\ TicksOf(rows) = TicksOf(gaps[c])
              /\ \A q \in rows : q[3] = NULL =>
                    \A r \in reasons[c] : ~Overlaps(q, r)
      ]_vars

\* Range q lies inside range r.
Inside(q, r) == r[1] <= q[1] /\ q[2] <= r[2]

\* The rows of a read that carry a reason.
Known(rows) == {q \in RowsOf(rows) : Len(q) = 3 /\ q[3] # NULL}

\* C26: every row with a non-null reason that a read gives, as fetched and
\* as returned, lies inside a gap of the collection and inside a reason of
\* the collection with that text.
C26_KnownRowsInGapAndReason ==
    [][(rd' # rd) =>
          \A q \in Known(rd'.fetched) \cup Known(rd'.rows) :
              /\ q[1] < q[2]
              /\ \E g \in gaps[rd'.collection] : Inside(q, g)
              /\ \E r \in reasons[rd'.collection] : Inside(q, r) /\ r[3] = q[3]
      ]_vars

\* C26 witness: a read returned a row with a reason that is a proper part
\* of a gap and a proper part of a reason, the two overlapping partly.
C26_Witness ==
    \E q \in Known(rd.rows) :
        \E g \in gaps[rd.collection] : \E r \in reasons[rd.collection] :
            /\ Inside(q, g) /\ Inside(q, r)
            /\ <<q[1], q[2]>> # g
            /\ <<q[1], q[2]>> # <<r[1], r[2]>>

\* Every tolerance up to one second more than the extent is long.
AllTolerances == 0..((MaxT \div TicksPerSec) + 1)

\* The rows returned for the reader's collection state, window, known
\* filter and clock, with tolerance t.
Returned(q, t) ==
    RowsOf(fetch_time_gaps_rows(q.collection, t, q.knownCheck, q.startDate,
                                q.endDate, q.now))

\* C27: on one state of a collection, with one window, known filter and
\* clock, the rows returned with tolerance t2 are among those returned
\* with any t1 <= t2, for all pairs of tolerances and for the tolerance of
\* each read against the smaller ones; and with tolerance 0 and the known
\* filter off every gap in the window has a row in the result.
C27_ToleranceMonotone ==
    /\ [](\A c \in Registered : \A knownCheck \in BOOLEAN :
          \A window \in Windows : \A now \in Nows :
              LET q == [collection |-> c, knownCheck |-> knownCheck,
                        startDate |-> window[1], endDate |-> window[2],
                        now |-> now]
              IN  /\ \A t1 \in AllTolerances : \A t2 \in AllTolerances :
                        t1 <= t2 => Returned(q, t2) \subseteq Returned(q, t1)
                  /\ ~knownCheck =>
                        \A g \in gaps[c] :
                            InWindow(g, window[1], window[2]) =>
                                \E row \in RowsOf(OrderByStart(
                                              gap_query(gaps[c], reasons[c], 0,
                                                        FALSE, window[1],
                                                        window[2]))) :
                                    Inside(row, g))
    /\ [][(rd' # rd) =>
             /\ RowsOf(rd'.rows) = Returned(rd', rd'.granulegap)
             /\ \A t1 \in 0..rd'.granulegap :
                   RowsOf(rd'.rows) \subseteq Returned(rd', t1)
         ]_vars

\* C27 witness: the reader holds the result of a read with tolerance 1 on
\* the current state, with at least one row, and a read with tolerance 0
\* returns these rows and more.
C27_Witness ==
    /\ rd.collection \in Registered
    /\ rd.granulegap = 1
    /\ rd.rows # <<>>
    /\ RowsOf(rd.rows) = Returned(rd, 1)
    /\ Returned(rd, 1) \subseteq Returned(rd, 0)
    /\ Returned(rd, 1) # Returned(rd, 0)

\* C28: a read with knownCheck set gets only rows with NULL reason from the
\* query, and returns no row that carries a reason.
C28_KnownFilterNullOnly ==
    [][(rd' # rd /\ rd'.knownCheck) =>
          /\ \A q \in RowsOf(rd'.fetched) : q[3] = NULL
          /\ Known(rd'.rows) = {}
      ]_vars

\* C28 witness: the reader holds the rows of a read with knownCheck set on
\* the current state, at least one, and the same read with the filter off
\* returns a row with a reason.
C28_Witness ==
    /\ rd.collection \in Registered
    /\ rd.knownCheck
    /\ rd.rows # <<>>
    /\ rd.rows = fetch_time_gaps_rows(rd.collection, rd.granulegap, TRUE,
                                      rd.startDate, rd.endDate, rd.now)
    /\ Known(fetch_time_gaps_rows(rd.collection, rd.granulegap, FALSE,
                                  rd.startDate, rd.endDate, rd.now)) # {}

\* C29: when the last row the query gave ends in year 9999, the read
\* returns the same rows with only the end of the last one replaced by the
\* clock; every returned row is a (start_ts, end_ts, reason) triple and
\* none ends in year 9999. Otherwise the rows are returned as fetched.
C29_SentinelReplacement ==
    [][(rd' # rd) =>
          LET fetched == rd'.fetched
              n == Len(fetched)
          IN  /\ Len(rd'.rows) = n
              /\ \A i \in 1..n :
                    /\ Len(rd'.rows[i]) = 3
                    /\ rd'.rows[i][1] = fetched[i][1]
                    /\ rd'.rows[i][3] = fetched[i][3]
                    /\ rd'.rows[i][2] =
                          IF i = n /\ year(fetched[n][2]) = 9999
                          THEN rd'.now ELSE fetched[i][2]
                    /\ year(rd'.rows[i][2]) # 9999
      ]_vars

\* C30: a request that adds a reason for a range of a collection changes
\* no row of gaps, neither the ranges nor the reason column, and is
\* answered with 200 whether or not a gap lies in the range.
C30_ReasonsDecoupled ==
    [][\A r \in PutRanges :
          (tsrangeOK(r[1], r[2])
              /\ update_reason("A", r[1], r[2], "outage", "create")) =>
              /\ gaps' = gaps
              /\ gap_reason' = gap_reason
              /\ kg'.statusCode = 200
      ]_vars

\* What one granule range gr makes of gap g, case by case.
IngestCase(g, gr) ==
    IF ~Overlaps(g, gr) THEN {g}
    ELSE IF gr[1] <= g[1] /\ gr[2] >= g[2] THEN {}
    ELSE IF gr[1] > g[1] /\ gr[2] < g[2]
         THEN {<<g[1], gr[1]>>, <<gr[2], g[2]>>}
    ELSE IF gr[1] <= g[1] /\ gr[2] < g[2] THEN {<<gr[2], g[2]>>}
    ELSE {<<g[1], gr[1]>>}

\* The range [gs, ge) of the single staged granule of worker w: its end is
\* the staged end taken to the next whole second.
GranuleOf(w) ==
    LET r == Records(event[w], cur[w])[1]
    IN  <<r.start_ts, RoundEnd(r.end_ts)>>

\* C31: the commit of an ingest batch of one granule [gs, ge) deletes each
\* gap the granule covers, replaces a gap that strictly contains it by the
\* two gaps on its sides, shrinks a gap it overlaps on one edge to the part
\* outside the granule, and leaves every other gap as it is.
C31_IngestCases ==
    [][\A w \in Workers :
          (CommitsIngest(w) /\ Len(Records(event[w], cur[w])) = 1) =>
              gaps'[cur[w]] =
                  UNION {IngestCase(g, GranuleOf(w)) : g \in gaps[cur[w]]}
      ]_vars

\* C31 witness: an ingest of one granule that overlaps two gaps, of one of
\* them a part only, has been executed and is about to commit.
C31_Witness ==
    /\ pc["w1"] = "executed" /\ ~delete["w1"]
    /\ Len(Records(event["w1"], "A")) = 1
    /\ \E g1 \in gaps["A"] : \E g2 \in gaps["A"] \ {g1} :
          /\ Overlaps(g1, GranuleOf("w1")) /\ Overlaps(g2, GranuleOf("w1"))
          /\ IngestCase(g1, GranuleOf("w1")) # {}

\* The places (consumer, call, position) at which message m was passed to
\* send_message_batch.
PassedAt(m) ==
    UNION {UNION {{<<c, k, j>> : j \in {i \in 1..Len(consumers[c].calls[k].Entries) :
                                          consumers[c].calls[k].Entries[i] = m}} :
                  k \in 1..Len(consumers[c].calls)} :
           c \in ConsumerIds}

\* C32: every send_message_batch call carries between one message and a
\* full batch, no message is passed to a call twice, and when
\* process_collection has returned every message a producer put was passed
\* to exactly one call and result_queue is empty.
C32_EveryMessageInOneBatch ==
    /\ \A c \in ConsumerIds : \A k \in 1..Len(consumers[c].calls) :
          /\ Len(consumers[c].calls[k].Entries) >= 1
          /\ Len(consumers[c].calls[k].Entries) <= BatchFull
    /\ \A m \in MessagesPut : Cardinality(PassedAt(m)) <= 1
    /\ MessagesSent \subseteq MessagesPut
    /\ orch.pc = "returned" =>
          /\ \A m \in MessagesPut : Cardinality(PassedAt(m)) = 1
          /\ result_queue = <<>>

\* C32 witness: a backfill has returned in which the messages of two
\* producers went to one consumer, which sent them as one full batch.
C32_Witness ==
    /\ orch.pc = "returned" /\ orch.np = 2
    /\ Cardinality(MessagesPut) = MaxGranules
    /\ \E c \in ConsumerTasks : \E k \in 1..Len(consumers[c].calls) :
          /\ Len(consumers[c].calls[k].Entries) = BatchFull
          /\ \E i, j \in 1..BatchFull :
                consumers[c].calls[k].Entries[i][1] # consumers[c].calls[k].Entries[j][1]

\* Producer p takes a step of fetch_cmr_range at its page request.
Requests(p) == producers[p].pc = "fetch" /\ producers'[p] # producers[p]

\* C33: a producer has failed at most max_retries tries of the page it
\* requests and has slept k squared seconds after the failed try number k
\* of the page, counted from 0; a failed try below that count is followed
\* by another request of the same page, the failed try after max_retries
\* retries makes the producer raise, after which it requests no page and
\* puts nothing, and a page that was fetched leaves the count at 0 for the
\* next page.
C33_ProducerRetries ==
    /\ [](\A p \in ProducerIds :
            /\ producers[p].retry <= max_retries
            /\ producers[p].slept =
                  [k \in 1..producers[p].retry |-> (k - 1) * (k - 1)]
            /\ producers[p].pc = "failed" => producers[p].retry = max_retries
            /\ producers[p].pc \in {"put", "done"} => producers[p].retry = 0)
    /\ [][\A p \in ProducerIds :
            /\ (Requests(p) /\ producers'[p].pc = "fetch"
                   /\ producers'[p].put = producers[p].put) =>
                  /\ producers'[p].retry = producers[p].retry + 1
                  /\ producers'[p].found = producers[p].found
            /\ (Requests(p) /\ producers'[p].pc = "failed") =>
                  /\ producers[p].retry = max_retries
                  /\ Len(producers[p].slept) = max_retries
            /\ producers[p].pc = "failed" => producers'[p] = producers[p]
       ]_vars

\* C33 witness: a producer fetched its first page and put its granule, and
\* has then failed the request of the second page four times in a row,
\* slept 0, 1 and 4 seconds between the tries, and raised.
C33_Witness ==
    \E p \in ProducerTasks :
        /\ producers[p].pc = "failed"
        /\ producers[p].put = 1
        /\ producers[p].slept = <<0, 1, 4>>

\* C34: result_queue never holds more than queue_size = n_producers * 2 *
\* page_size items, messages and sentinels together, and while it is full
\* a producer at its put puts nothing: it stays at the put, or is
\* cancelled, until a consumer has taken an item.
C34_BoundedChannel ==
    /\ [](/\ Len(result_queue) <= orch.size
          /\ orch.np > 0 => orch.size = orch.np * 2 * page_size)
    /\ [][\A p \in ProducerIds :
             (/\ producers[p].pc = "put"
              /\ Len(result_queue) = orch.size
              /\ Len(result_queue') >= Len(result_queue)) =>
                 /\ producers'[p].put = producers[p].put
                 /\ result_queue' = result_queue
                 /\ producers'[p].pc \in {"put", "cancelled"}
         ]_vars

\* C34 witness: the producer is at the put of a message while result_queue
\* is full of messages no consumer has taken yet.
C34_Witness ==
    /\ orch.pc = "gather_producers"
    /\ producers[1].pc = "put"
    /\ Len(result_queue) = orch.size
    /\ orch.size = 2 * page_size
    /\ \A c \in ConsumerTasks : consumers[c].pc = "get" /\ consumers[c].batch = <<>>

\* C35: in every state reached from freshly registered collections by
\* ingest and deletion batches, every gap of a collection has start_ts <
\* end_ts and no gap ends where another gap of the collection starts.
C35_GapsMaximal ==
    \A c \in Registered :
        /\ \A g \in gaps[c] : g[1] < g[2]
        /\ \A g \in gaps[c] : \A h \in gaps[c] : g[2] # h[1]

\* C35 witness: the last batch committed was a deletion of two granules one
\* of which touched a gap, and the collection has two gaps.
C35_Witness ==
    /\ hist["A"].kind = "delete"
    /\ Len(hist["A"].recs) = 2
    /\ \E g \in hist["A"].pre : \E r \in input_ranges(hist["A"].recs) :
          Adjacent(g, r)
    /\ Cardinality(gaps["A"]) >= 2

\* ------------------------------------------------------ split_date_ranges
\* The backfill splits the temporal extent of a collection into one range per
\* producer. Datetimes are counted in ticks, the resolution of datetime and
\* timedelta. fromisoformat reads and isoformat prints every digit of a
\* datetime, so a datetime and its string determine each other and the
\* ranges are kept as datetimes.

\* timedelta / int: the quotient rounded to the nearest tick, a tie to the
\* even one.
timedelta_div(span, n) == round(span, n)

\* delta = (end - start) / num_ranges, and the ranges
\* (start + delta * i, start + delta * (i + 1)) for i in range(num_ranges).
split_ranges(start, end, num_ranges) ==
    LET delta == timedelta_div(end - start, num_ranges)
    IN  [i \in 1..num_ranges |->
            <<start + delta * (i - 1), start + delta * i>>]

split_date_ranges(start_date, end_date, num_ranges) ==
    /\ sp = [start |-> start_date, end |-> end_date,
             num_ranges |-> num_ranges, ranges |-> <<>>]
    /\ sp' = [sp EXCEPT !.ranges =
                 split_ranges(start_date, end_date, num_ranges)]
    /\ UNCHANGED <<notFn, ci, dbc>>

\* The extents the split is asked for: a start and an end not before it.
SplitTimes == 0..(2 * MaxT)

\* A call of split_date_ranges with arguments still to be split.
InitSplit ==
    /\ InitDb
    /\ hashOf = DistinctKeys
    /\ sp \in {x \in [start : SplitTimes, end : SplitTimes,
                      num_ranges : ProducerIds, ranges : {<<>>}] :
                 x.start <= x.end}
    /\ ci = NoId
    /\ dbc = NoConnection

NextSplit ==
    \E s \in SplitTimes, e \in SplitTimes, n \in ProducerIds :
        split_date_ranges(s, e, n)

SpecSplit == InitSplit /\ [][NextSplit]_vars

\* C36: split_date_ranges(start, end, P) returns P ranges of equal length,
\* the first starting at start, the last ending at end, and each ending where
\* the next one begins.
C36_SplitCoversExtent ==
    sp.ranges # <<>> =>
        /\ Len(sp.ranges) = sp.num_ranges
        /\ \A i, j \in DOMAIN sp.ranges :
              sp.ranges[i][2] - sp.ranges[i][1]
                  = sp.ranges[j][2] - sp.ranges[j][1]
        /\ sp.ranges[1][1] = sp.start
        /\ sp.ranges[Len(sp.ranges)][2] = sp.end
        /\ \A i \in 1..(Len(sp.ranges) - 1) :
              sp.ranges[i][2] = sp.ranges[i + 1][1]

\* What stays of C36 whatever the extent: the count, the equal lengths, the
\* first start and the contiguity.
C36_AllButTheLastEnd ==
    sp.ranges # <<>> =>
        /\ Len(sp.ranges) = sp.num_ranges
        /\ \A i, j \in DOMAIN sp.ranges :
              sp.ranges[i][2] - sp.ranges[i][1]
                  = sp.ranges[j][2] - sp.ranges[j][1]
        /\ sp.ranges[1][1] = sp.start
        /\ \A i \in 1..(Len(sp.ranges) - 1) :
              sp.ranges[i][2] = sp.ranges[i + 1][1]

\* The last end is the end exactly when the extent divides by the count.
C36_ExactWhenDivisible ==
    sp.ranges # <<>> =>
        (sp.ranges[Len(sp.ranges)][2] = sp.end
            <=> (sp.end - sp.start) % sp.num_ranges = 0)

\* ---------------------------------------------------------- collection ids
\* A string is the sequence of its characters.
Strings(chars, n) == UNION {[1..k -> chars] : k \in 1..n}

\* str.replace(old, new) for one-character old and new.
replace(s, old, new) == [i \in DOMAIN s |-> IF s[i] = old THEN new ELSE s[i]]

\* versionid.replace(".", "_")
sanitize_versionid(versionid) == replace(versionid, ".", "_")

Separator == <<"_", "_", "_">>

\* f"{shortname}___{sanitize_versionid(versionid)}"
collection_id_of(shortname, versionid) ==
    shortname \o Separator \o sanitize_versionid(versionid)

\* Where '___' occurs in s.
Occurrences(s) ==
    {i \in 1..(Len(s) - 2) : SubSeq(s, i, i + 2) = Separator}

Rightmost(S) == CHOOSE i \in S : \A j \in S : j <= i

\* collection_id.rsplit('___', 1): the split at the rightmost '___'.
rsplit(s) ==
    LET i == Rightmost(Occurrences(s))
    IN  <<SubSeq(s, 1, i - 1), SubSeq(s, i + 3, Len(s))>>

\* The two parts as rsplit gives them, the version still sanitized.
parse_NoReverse(collection_id) == rsplit(collection_id)

\* parse_collection_id's return value for an id that contains '___'.
parse(collection_id) ==
    LET parts == rsplit(collection_id)
    IN  <<parts[1], replace(parts[2], "_", ".")>>

\* The caller builds the id of a collection.
make_collection_id(shortname, versionid) ==
    /\ ci.short_name = shortname
    /\ ci.version = versionid
    /\ ci.collection_id = <<>>
    /\ ci' = [ci EXCEPT !.collection_id = collection_id_of(shortname, versionid)]
    /\ UNCHANGED <<notFn, sp, dbc>>

\* The ValueError for an id without '___' ends the call with nothing parsed.
parse_collection_id(collection_id) ==
    /\ ci.collection_id = collection_id
    /\ ci.parsed = <<>>
    /\ Occurrences(collection_id) # {}
    /\ ci' = [ci EXCEPT !.parsed = parse(collection_id)]
    /\ UNCHANGED <<notFn, sp, dbc>>

ShortNames == Strings({"A", "_"}, 2)
Versions == Strings({"1", ".", "_"}, 3)
CollectionIdStrings ==
    {collection_id_of(n, v) : n \in ShortNames, v \in Versions}

\* A short name and a version whose id is still to be built.
InitIds ==
    /\ InitDb
    /\ hashOf = DistinctKeys
    /\ sp = NoSplit
    /\ ci \in [short_name : ShortNames, version : Versions,
               collection_id : {<<>>}, parsed : {<<>>}]
    /\ dbc = NoConnection

NextIds ==
    \/ \E n \in ShortNames, v \in Versions : make_collection_id(n, v)
    \/ \E id \in CollectionIdStrings : parse_collection_id(id)

SpecIds == InitIds /\ [][NextIds]_vars

\* The versions that come back from their id: no underscore, no dot in
\* front, no three dots in a row.
Reversible(v) ==
    /\ \A i \in DOMAIN v : v[i] # "_"
    /\ v # <<>> => v[1] # "."
    /\ \A i \in 1..(Len(v) - 2) : SubSeq(v, i, i + 2) # <<".", ".", ".">>

\* The pairs other than the one of the state that have the id of the state.
SameId ==
    {x \in ShortNames \X Versions :
        /\ x # <<ci.short_name, ci.version>>
        /\ collection_id_of(x[1], x[2]) = ci.collection_id}

C37_SameIdAgain ==
    ci.parsed # <<>> =>
        collection_id_of(ci.parsed[1], ci.parsed[2]) = ci.collection_id

\* ------------------------------------------------------------- C38 .. C40
\* The places of message id x in the failures of worker w.
PlacesOf(w, x) == {i \in DOMAIN failures[w] : failures[w][i] = x}

\* C38: no message id appears more than once in batchItemFailures, whatever
\* made its group fail.
C38_NoDuplicateFailures ==
    \A w \in Workers :
        \A i, j \in DOMAIN batchItemFailures(w) :
            batchItemFailures(w)[i] = batchItemFailures(w)[j] => i = j

\* What holds instead: a step that adds to failures adds the message ids of
\* one group, once when its collection is registered and twice when it is
\* not.
C38_TwiceOnlyUnregistered ==
    [][\A w \in Workers :
          (failures'[w] # failures[w] /\ failures'[w] # <<>>) =>
              \E c \in IdsOf(GroupOrder(event[w], {})) :
                  LET ids == MessageIds(event[w], c)
                  IN  /\ \A i, j \in DOMAIN ids : ids[i] = ids[j] => i = j
                      /\ failures'[w] =
                            IF c \in Registered
                            THEN failures[w] \o ids
                            ELSE failures[w] \o ids \o ids]_vars

\* ------------------------------------------------------- get_db_connection
\* One `with get_db_connection() as conn:` block. A connection is named by
\* the number of the getconn call that gave it; conn = 0 is None.

\* def get_db_connection(retry_count=3)
retry_count == 3

\* What the body of the with block can raise: an OperationalError, which the
\* except clause of the retry loop names, or any other Exception.
BodyExceptions == {"OperationalError", "Exception"}

\* pool.putconn(c), called on record d. The pool takes a connection it has
\* given out; for one it already has back, the call either takes it again or
\* raises, as the pool decides.
putconn(d, c, again) ==
    LET has == \E i \in DOMAIN d.returned : d.returned[i] = c
    IN  [d EXCEPT !.putconn = Append(@, c),
                  !.returned = IF has /\ ~again THEN @ ELSE Append(@, c)]

\* if conn and not conn.closed: pool.putconn(conn)
putconn_if_open(d, again) ==
    IF d.conn # 0 /\ d.conn \notin d.closed
    THEN putconn(d, d.conn, again)
    ELSE d

\* The with statement calls the generator: pool = get_connection_pool(),
\* conn = None, and the first turn of the loop.
get_db_connection ==
    /\ dbc.pc = "idle"
    /\ dbc' = [dbc EXCEPT !.pc = "getconn"]
    /\ UNCHANGED <<notFn, sp, ci>>

\* conn = pool.getconn(timeout=10): a connection, or PoolTimeout.
getconn(ok) ==
    /\ dbc.pc = "getconn"
    /\ dbc' = IF ok
              THEN [dbc EXCEPT !.pc = "validate",
                               !.conn = dbc.acquired + 1,
                               !.acquired = @ + 1]
              ELSE [dbc EXCEPT !.pc = "except", !.exc = "PoolTimeout"]
    /\ UNCHANGED <<notFn, sp, ci>>

\* cur.execute("SELECT 1"): passes, or raises an OperationalError that may
\* leave the connection closed.
validate(ok, closes) ==
    /\ dbc.pc = "validate"
    /\ dbc' = IF ok
              THEN [dbc EXCEPT !.pc = "yield"]
              ELSE [dbc EXCEPT !.pc = "except", !.exc = "OperationalError",
                               !.closed = IF closes THEN @ \cup {dbc.conn}
                                          ELSE @]
    /\ UNCHANGED <<notFn, sp, ci>>

\* yield conn. The first yield starts the body. A yield while the body's
\* exception is being thrown into the generator makes contextmanager raise
\* RuntimeError("generator didn't stop after throw()") to the caller.
yield_conn ==
    /\ dbc.pc = "yield"
    /\ dbc' = IF dbc.yielded = <<>>
              THEN [dbc EXCEPT !.pc = "body", !.yielded = Append(@, dbc.conn)]
              ELSE [dbc EXCEPT !.pc = "suspended",
                               !.yielded = Append(@, dbc.conn),
                               !.result = "RuntimeError"]
    /\ UNCHANGED <<notFn, sp, ci>>

\* The body ends without an exception: commit, the finally clause, return.
body_returns ==
    /\ dbc.pc = "body"
    /\ dbc' = [putconn_if_open(dbc, FALSE) EXCEPT
                  !.pc = "done", !.body = "returned",
                  !.commit = @ + 1, !.result = "returned"]
    /\ UNCHANGED <<notFn, sp, ci>>

\* The body raises: except Exception rolls back unless the connection is
\* closed and raises again, the finally clause returns the connection
\* unless it is closed, and an OperationalError then reaches the except
\* clause of the retry loop, which encloses the yield.
body_raises(kind, closes) ==
    /\ dbc.pc = "body"
    /\ LET d0 == [dbc EXCEPT !.body = kind, !.exc = kind,
                             !.closed = IF closes THEN @ \cup {dbc.conn}
                                        ELSE @]
           d1 == IF closes THEN d0 ELSE [d0 EXCEPT !.rollback = @ + 1]
           d2 == putconn_if_open(d1, FALSE)
       IN  dbc' = IF kind = "OperationalError"
                  THEN [d2 EXCEPT !.pc = "except"]
                  ELSE [d2 EXCEPT !.pc = "done", !.result = kind]
    /\ UNCHANGED <<notFn, sp, ci>>

\* except (psycopg.OperationalError, PoolTimeout): putconn in a try whose
\* except passes, then another turn after the sleep, or raise on the last.
except_handler(again) ==
    /\ dbc.pc = "except"
    /\ LET d1 == putconn_if_open(dbc, again)
       IN  dbc' = IF dbc.attempt < retry_count - 1
                  THEN [d1 EXCEPT !.pc = "getconn", !.attempt = @ + 1]
                  ELSE [d1 EXCEPT !.pc = "done", !.result = dbc.exc]
    /\ UNCHANGED <<notFn, sp, ci>>

\* The generator left at its second yield is closed: GeneratorExit passes
\* except Exception and the finally clause returns the connection.
gen_close ==
    /\ dbc.pc = "suspended"
    /\ dbc' = [putconn_if_open(dbc, FALSE) EXCEPT !.pc = "done"]
    /\ UNCHANGED <<notFn, sp, ci>>

NextConn ==
    \/ get_db_connection
    \/ \E ok \in BOOLEAN : getconn(ok)
    \/ \E ok \in BOOLEAN, closes \in BOOLEAN : validate(ok, closes)
    \/ yield_conn
    \/ body_returns
    \/ \E kind \in BodyExceptions, closes \in BOOLEAN : body_raises(kind, closes)
    \/ \E again \in BOOLEAN : except_handler(again)
    \/ gen_close

SpecConn == Init /\ [][NextConn]_vars

\* How often connection c was taken back by the pool.
TimesReturned(c) ==
    Cardinality({i \in DOMAIN dbc.returned : dbc.returned[i] = c})

\* C39: an exception raised in the body of the with block causes one
\* rollback, the connection goes back to the pool exactly once, the caller
\* gets the exception that was raised, and after the body has started no
\* second connection is acquired or yielded.
C39_BodyException ==
    dbc.body \in BodyExceptions =>
        /\ dbc.acquired = dbc.yielded[1]
        /\ Len(dbc.yielded) = 1
        /\ dbc.pc = "done" =>
              /\ dbc.rollback = 1
              /\ TimesReturned(dbc.yielded[1]) = 1
              /\ dbc.result = dbc.body

\* What holds: for an exception other than OperationalError that leaves the
\* connection open, all of C39.
C39_OtherExceptions ==
    (dbc.body = "Exception" /\ dbc.yielded[1] \notin dbc.closed) =>
        /\ dbc.acquired = dbc.yielded[1]
        /\ Len(dbc.yielded) = 1
        /\ dbc.pc = "done" =>
              /\ dbc.rollback = 1
              /\ TimesReturned(dbc.yielded[1]) = 1
              /\ dbc.result = dbc.body

\* The caller of a body that raised an OperationalError has been given a
\* RuntimeError, after a second connection was acquired and yielded.
C39_DidntStop ==
    /\ dbc.pc = "done"
    /\ dbc.body = "OperationalError"
    /\ dbc.result = "RuntimeError"
    /\ dbc.yielded = <<1, 2>>
    /\ dbc.rollback = 1

\* C40: committing a deletion batch whose records are those of the last
\* batch committed on the collection, itself a deletion batch, leaves the
\* gaps as they are.
C40_DeleteTwice ==
    [][\A w \in Workers :
          (/\ CommitsDelete(w)
           /\ hist[cur[w]].kind = "delete"
           /\ hist[cur[w]].recs = Records(event[w], cur[w]))
          => gaps'[cur[w]] = gaps[cur[w]]
      ]_vars

\* C40 witness: on a collection with two gaps, one of them added or widened
\* by a deletion batch, the same batch has been executed a second time.
C40_Witness ==
    /\ pc["w1"] = "executed" /\ delete["w1"]
    /\ hist["A"].kind = "delete"
    /\ hist["A"].recs = Records(event["w1"], "A")
    /\ Cardinality(gaps["A"]) >= 2
    /\ pending["w1"].rows = gaps["A"]

============================================================================
